---- MODULE Spec2Model ----
(***************************************************************************)
(* A model of cowcat-rs, a proof-of-work reverse-proxy gate.               *)
(*                                                                         *)
(*   storage/task_store.rs   the one-shot, expiring task store             *)
(*   handlers/pow.rs         POST /task, POST /verify, challenge issuance  *)
(*   middleware/pow.rs       the gate (pow_gate)                           *)
(*   crypto/                 hashes, PoW check, admission cookie           *)
(*   rules.rs                the rules engine                              *)
(*   protocol/frame.rs       the binary frames and their mask              *)
(*   handlers/favicon.rs     the cached favicon                            *)
(*   main.rs, proxy/         the router and the forwarding handler         *)
(*   wasm/src/lib.rs         the client: solver and frame decoder          *)
(*                                                                         *)
(* Ten specifications share the state and the operators:                   *)
(*   Spec      POST /task, POST /verify, the sweeper and the clock; every  *)
(*             handler is one step, the store operations being atomic      *)
(*             because each runs under the store's mutex.                  *)
(*   SpecGate  Spec with requests through the gate.                        *)
(*   SpecLock  the store operations at the grain of the mutex: lock,       *)
(*             find, erase, expiry check, validator, return, as separate   *)
(*             steps of concurrent threads.                                *)
(*   SpecDifficulty                                                        *)
(*             the gate under one challenge rule, over every base          *)
(*             difficulty, deltas at both ends of i32 and both settings    *)
(*             of the build's overflow checks.                             *)
(*   SpecCalls the functions that keep no state (rules evaluation, the     *)
(*             cookie token, the frame codec and its mask), each applied   *)
(*             to arguments drawn in the initial state.                    *)
(*   SpecWire  POST /task and POST /verify with bodies and replies as      *)
(*             bytes, under both settings of the log filter and of the     *)
(*             build's debug assertions.                                   *)
(*   SpecIssue the two places that issue a task, with the frames they      *)
(*             send, over every base difficulty.                           *)
(*   SpecLive  Spec with weak fairness on the sweeper and on the clock.    *)
(*   SpecRaise the gate under a rule that raises the difficulty, with a    *)
(*             client that solves tasks and returns with its cookies.      *)
(*   SpecFavicon                                                           *)
(*             GET /favicon.ico by concurrent requests, at the grain of    *)
(*             the cache's reader/writer lock.                             *)
(***************************************************************************)
EXTENDS Integers, Sequences, FiniteSets, TLC

(***************************************************************************)
(* Bounds of the model.                                                    *)
(***************************************************************************)
MaxTasks == 2        \* Spec: tasks generated in one run (ids 1..MaxTasks)
MaxGateTasks == 2    \* SpecGate: tasks generated in one run
NumThreads == 2      \* SpecLock: concurrent verify threads
MaxLockTasks == 1    \* SpecLock: tasks generated in one run
MaxRules == 2        \* SpecCalls: rules in a rules engine
MaxDifficultyTasks == 1   \* SpecDifficulty: tasks generated in one run
MaxWireTasks == 1    \* SpecWire: tasks generated in one run
MaxIssueTasks == 2   \* SpecIssue: tasks generated in one run
MaxRaiseTasks == 2   \* SpecRaise: tasks generated in one run

(***************************************************************************)
(* Program constants.                                                      *)
(***************************************************************************)
TASK_CLEANUP_INTERVAL == 300
TASK_TTL == 120
MAX_DIFFICULTY == 10
BITS_PER_LEVEL == 4
SECONDS_PER_HOUR == 3600
POW_PREFIX == "/__cowcatwaf"
POW_COOKIE_NAME == "cowcat.waf.token"
FAVICON_PATH == "/favicon.ico"
POW_VERSION == "v1"
FAVICON_TTL == 3600

MSG_INVALID_REQUEST == "invalid request"
MSG_TASK_NOT_FOUND_OR_EXPIRED == "task not found or expired"
MSG_TASK_EXPIRED == "task expired"
MSG_USER_AGENT_MISMATCH == "user agent mismatch"
MSG_IP_ADDRESS_MISMATCH == "ip address mismatch"
MSG_INVALID_PROOF_OF_WORK == "invalid proof of work"
MSG_FAILED_TO_GENERATE_TASK == "failed to generate task"

(***************************************************************************)
(* Input domains.  The clock is observed at Instants only: a task issued   *)
(* at 180 has exp = 300, so that now = exp and now = exp + 1 both occur    *)
(* once the sweeper's first sleep has ended; a cookie issued at 300 with a  *)
(* one-hour lifetime has exp = 3900.                                       *)
(***************************************************************************)
Instants == {0, 180, 300, 301, 3900}
UserAgents == {"Mozilla", "curl"}
ZeroCounts == {0, 4}
ServerSecret == "salt0000000000000000000000000000"
ForgedSecret == "guess000000000000000000000000000"

\* peer address and the two forwarding headers (a header is its list of
\* comma-separated tokens; <<>> is an absent header)
Clients ==
  { [peer |-> "10.0.0.1", xff |-> <<>>, xri |-> <<>>],
    [peer |-> "10.0.0.2", xff |-> <<>>, xri |-> <<>>],
    [peer |-> "10.0.0.1", xff |-> <<"10.0.0.2", "10.0.0.1">>, xri |-> <<>>] }

VARIABLES
  cfg,        \* AppState.config (immutable after start)
  now,        \* OffsetDateTime::now_utc().unix_timestamp()
  store,      \* TaskStore.inner: task_id -> Task
  nextId,     \* the next value the random generator yields (ids and seeds are fresh)
  cap,        \* the number of tasks this run generates (a bound of the run)
  wake,       \* the time the sweeper's current sleep ends
  cookies,    \* tokens emitted in Set-Cookie so far
  wins,       \* history: task_id -> number of verify requests that succeeded
  shadow,     \* history: the store as it would be had the sweeper never run
  lock,       \* SpecLock: Option of the thread that holds the store's mutex
  thr,        \* SpecLock: thread -> its position and locals
  last,       \* the last operation and its response
  favicon_cache   \* AppState.favicon_cache: the RwLock and the Option it guards

vars == <<cfg, now, store, nextId, cap, wake, cookies, wins, shadow, lock, thr, last,
          favicon_cache>>

(***************************************************************************)
(* Option<T> is a sequence of length 0 (None) or 1 (Some).                 *)
(***************************************************************************)
None == <<>>
Some(x) == <<x>>
IsSome(o) == o # <<>>

\* tokio::sync::RwLock::new(value): nobody holds a guard
RwLock_new(value) == [readers |-> {}, writer |-> None, value |-> value]

(***************************************************************************)
(* String helpers (str::starts_with, ends_with, contains, lower-casing).   *)
(***************************************************************************)
StartsWith(s, p) == Len(s) >= Len(p) /\ SubSeq(s, 1, Len(p)) = p
EndsWith(s, p) == Len(s) >= Len(p) /\ SubSeq(s, Len(s) - Len(p) + 1, Len(s)) = p
Contains(s, p) == \E i \in 1..(Len(s) - Len(p) + 1) : SubSeq(s, i, i + Len(p) - 1) = p

UpperChars == <<"A","B","C","D","E","F","G","H","I","J","K","L","M",
                "N","O","P","Q","R","S","T","U","V","W","X","Y","Z">>
LowerChars == <<"a","b","c","d","e","f","g","h","i","j","k","l","m",
                "n","o","p","q","r","s","t","u","v","w","x","y","z">>
LowerChar(c) ==
  IF \E i \in 1..26 : UpperChars[i] = c
    THEN LowerChars[CHOOSE i \in 1..26 : UpperChars[i] = c]
    ELSE c
RECURSIVE to_ascii_lowercase(_)
to_ascii_lowercase(s) ==
  IF Len(s) = 0 THEN ""
  ELSE LowerChar(SubSeq(s, 1, 1)) \o to_ascii_lowercase(SubSeq(s, 2, Len(s)))

\* str::trim_start_matches and str::trim_end_matches for one character
RECURSIVE trim_start_matches(_, _)
trim_start_matches(s, c) ==
  IF s # "" /\ SubSeq(s, 1, 1) = c THEN trim_start_matches(SubSeq(s, 2, Len(s)), c)
  ELSE s

RECURSIVE trim_end_matches(_, _)
trim_end_matches(s, c) ==
  IF s # "" /\ SubSeq(s, Len(s), Len(s)) = c
    THEN trim_end_matches(SubSeq(s, 1, Len(s) - 1), c)
  ELSE s

trim_matches(s, c) == trim_end_matches(trim_start_matches(s, c), c)

\* str::trim, the space standing for white space
trim(s) == trim_matches(s, " ")

(***************************************************************************)
(* crypto/mod.rs                                                           *)
(* SHA-256 truncated to 8 bytes is modelled as an injective tagging of its *)
(* input: equal hashes iff equal inputs.                                   *)
(***************************************************************************)
compute_ua_hash(user_agent) == "sha256:" \o user_agent

compute_ip_hash(ip) == IF ip = "" THEN "" ELSE "sha256:" \o ip

\* header_ip: a header is the list value.split(',') yields (<<>> for an
\* absent header, <<"">> for a present header with an empty value); the
\* result is the first token trimmed, None ("") when that is empty
header_ip(value) == IF value = <<>> THEN "" ELSE trim(value[1])

remote_ip(client) == client.peer

\* a strict policy that reads the forwarding headers as enable does
extract_client_ip_strict_reads_headers(client, policy) ==
  CASE policy = "none" -> ""
    [] OTHER ->
         IF header_ip(client.xff) # "" THEN header_ip(client.xff)
         ELSE IF header_ip(client.xri) # "" THEN header_ip(client.xri)
         ELSE remote_ip(client)

extract_client_ip(client, policy) ==
  CASE policy = "none" -> ""
    [] policy = "enable" ->
         IF header_ip(client.xff) # "" THEN header_ip(client.xff)
         ELSE IF header_ip(client.xri) # "" THEN header_ip(client.xri)
         ELSE remote_ip(client)
    [] policy = "strict" -> remote_ip(client)

\* a resolution that prefers X-Forwarded-For, as the binding does
resolve_request_ip_forwarded_first(client) ==
  IF header_ip(client.xff) # "" THEN header_ip(client.xff)
  ELSE IF header_ip(client.xri) # "" THEN header_ip(client.xri)
  ELSE remote_ip(client)

\* ip_source/ip.rs: the address used for logging and rule matching
resolve_request_ip(client) ==
  IF header_ip(client.xri) # "" THEN header_ip(client.xri)
  ELSE IF header_ip(client.xff) # "" THEN header_ip(client.xff)
  ELSE remote_ip(client)

ValidIps == {"10.0.0.1", "10.0.0.2"}
parse_ip(ip) == IF ip \in ValidIps THEN Some(ip) ELSE None

(***************************************************************************)
(* crypto/pow.rs                                                           *)
(* A nonce is [seed, zeros]: the digest of a preimage has nonce.zeros      *)
(* leading zero bits when the nonce was searched for the preimage's seed,  *)
(* and none otherwise.  EmptyNonce is the empty string.                    *)
(***************************************************************************)
EmptyNonce == [seed |-> 0, zeros |-> 0]
Nonces == [seed : 1..MaxTasks, zeros : ZeroCounts]

count_leading_zero_bits(preimage) ==
  IF preimage.nonce.seed = preimage.seed THEN preimage.nonce.zeros ELSE 0

verify_pow(task, nonce) ==
  LET preimage == [v |-> POW_VERSION, seed |-> task.seed, exp |-> task.exp,
                   bits |-> task.bits, scope |-> task.scope,
                   ua_hash |-> task.ua_hash, nonce |-> nonce]
  IN count_leading_zero_bits(preimage) >= task.bits

(***************************************************************************)
(* crypto/token.rs                                                         *)
(* HMAC is modelled as the pair of key and message: two tags are equal iff *)
(* key and message are.                                                    *)
(***************************************************************************)
sign(secret, message) == [key |-> secret, msg |-> message]

generate_cookie(secret, bits, scope, ua_hash, ip_hash, nonce, duration_seconds, t) ==
  LET payload == [v |-> "v1", exp |-> t + duration_seconds, bits |-> bits,
                  scope |-> scope, ua |-> ua_hash,
                  ip |-> IF ip_hash = "" THEN None ELSE Some(ip_hash),
                  nonce |-> nonce]
  IN [payload |-> payload, sig |-> sign(secret, payload)]

\* Option<TokenPayload>
\* a check that rejects a cookie in the second its exp names
token_verify_cookie_strict(secret, token, t) ==
  IF token.sig # sign(secret, token.payload) THEN None
  ELSE IF token.payload.v # POW_VERSION THEN None
  ELSE IF token.payload.exp <= t THEN None
  ELSE IF token.payload.nonce = EmptyNonce THEN None
  ELSE Some(token.payload)

token_verify_cookie(secret, token, t) ==
  IF token.sig # sign(secret, token.payload) THEN None
  ELSE IF token.payload.v # "v1" THEN None
  ELSE IF token.payload.exp < t THEN None
  ELSE IF token.payload.nonce = EmptyNonce THEN None
  ELSE Some(token.payload)

(***************************************************************************)
(* crypto/token.rs on the wire: the cookie value as the string the client  *)
(* stores and sends back.  serde_json and base64 are injective encodings   *)
(* with partial inverses; HMAC is an injective tag of key and message in   *)
(* the base64url alphabet.  The specifications of the running server carry *)
(* the token in its parsed form (above); SpecCalls checks the string form. *)
(***************************************************************************)
\* serde_json::to_vec of a TokenPayload: the fields in declaration order,
\* ip left out when None (the strings drawn hold no quote or backslash)
json_payload(payload) ==
  "{\"v\":\"" \o payload.v \o "\",\"exp\":" \o ToString(payload.exp)
    \o ",\"bits\":" \o ToString(payload.bits)
    \o ",\"scope\":\"" \o payload.scope \o "\",\"ua\":\"" \o payload.ua \o "\""
    \o (IF payload.ip = None THEN "" ELSE ",\"ip\":\"" \o payload.ip[1] \o "\"")
    \o ",\"nonce\":\"" \o payload.nonce \o "\"}"

\* URL_SAFE_NO_PAD.encode: the output is over A-Z a-z 0-9 - _ only; the
\* model writes a character of that alphabet as itself and every other
\* one as an escape
base64_char(c) ==
  CASE c = "_" -> "__"
    [] c = "{" -> "_a"
    [] c = "}" -> "_b"
    [] c = "\"" -> "_q"
    [] c = ":" -> "_c"
    [] c = "," -> "_m"
    [] c = "." -> "_d"
    [] c = "=" -> "_e"
    [] c = " " -> "_s"
    [] OTHER -> c

RECURSIVE base64url_encode(_)
base64url_encode(bytes) ==
  IF bytes = "" THEN ""
  ELSE IF Len(bytes) = 1 THEN base64_char(bytes)
  ELSE LET half == Len(bytes) \div 2
       IN base64url_encode(SubSeq(bytes, 1, half))
            \o base64url_encode(SubSeq(bytes, half + 1, Len(bytes)))

\* sign: the HMAC-SHA256 tag of the message under the key, base64url
wire_sign(secret, message) == base64url_encode(secret \o ":" \o message)

\* a generate_cookie that signs the JSON instead of its base64 form
wire_generate_cookie_signs_json(secret, bits, scope, ua_hash, ip_hash, nonce, duration_seconds, t) ==
  LET payload == [v |-> "v1", exp |-> t + duration_seconds, bits |-> bits,
                  scope |-> scope, ua |-> ua_hash,
                  ip |-> IF ip_hash = "" THEN None ELSE Some(ip_hash),
                  nonce |-> nonce]
  IN base64url_encode(json_payload(payload)) \o "." \o wire_sign(secret, json_payload(payload))

wire_generate_cookie(secret, bits, scope, ua_hash, ip_hash, nonce, duration_seconds, t) ==
  LET exp == t + duration_seconds
      ip_value == IF ip_hash = "" THEN None ELSE Some(ip_hash)
      payload == [v |-> "v1", exp |-> exp, bits |-> bits, scope |-> scope,
                  ua |-> ua_hash, ip |-> ip_value, nonce |-> nonce]
      payload_b64 == base64url_encode(json_payload(payload))
      sig == wire_sign(secret, payload_b64)
  IN payload_b64 \o "." \o sig

\* str::find: the position of the first c in s, 0 when there is none
find(s, c) ==
  LET at == {i \in 1..Len(s) : SubSeq(s, i, i) = c}
  IN IF at = {} THEN 0 ELSE CHOOSE i \in at : \A j \in at : i <= j

\* Option<(payload, sig)>: splitn(2, '.') with both parts non-empty
split_token(token) ==
  LET dot == find(token, ".") IN
  IF dot = 0 THEN None
  ELSE LET payload == SubSeq(token, 1, dot - 1)
           sig == SubSeq(token, dot + 1, Len(token))
       IN IF payload = "" \/ sig = "" THEN None
          ELSE Some([payload |-> payload, sig |-> sig])

\* the payloads the strings of the model can decode to
CookieTimes == {0, TASK_CLEANUP_INTERVAL}
CookieDurations == {0, SECONDS_PER_HOUR}
TokenPayloads ==
  [v : {"v1"}, exp : {t + d : t \in CookieTimes, d \in CookieDurations},
   bits : {BITS_PER_LEVEL, BITS_PER_LEVEL * MAX_DIFFICULTY},
   scope : {"site", "a.b"}, ua : {"uaHash="},
   ip : {None, Some("ipHash=")}, nonce : {"", "n 1"}]

\* URL_SAFE_NO_PAD.decode and serde_json::from_slice: the payload whose
\* encoding the string is, None when it is the encoding of none
decode_payload(payload_b64) ==
  LET hits == {pl \in TokenPayloads : base64url_encode(json_payload(pl)) = payload_b64}
  IN IF hits = {} THEN None ELSE Some(CHOOSE pl \in hits : TRUE)

\* a verify_cookie that decodes the payload without checking the signature
wire_verify_cookie_unsigned(secret, raw, t) ==
  LET halves == split_token(trim_matches(trim(raw), "\"")) IN
  IF halves = None THEN None
  ELSE LET payload == decode_payload(trim_end_matches(halves[1].payload, "=")) IN
       IF payload = None THEN None
       ELSE IF payload[1].v # "v1" \/ payload[1].exp < t \/ payload[1].nonce = ""
         THEN None
       ELSE payload

\* Option<TokenPayload>
wire_verify_cookie(secret, raw, t) ==
  LET token == trim_matches(trim(raw), "\"")
      halves == split_token(token)
  IN IF halves = None THEN None
     ELSE LET payload_b64 == trim_end_matches(halves[1].payload, "=")
              sig == trim_end_matches(halves[1].sig, "=")
              expected == wire_sign(secret, payload_b64)
          IN IF sig # expected THEN None
             ELSE LET payload == decode_payload(payload_b64) IN
                  IF payload = None THEN None
                  ELSE IF payload[1].v # "v1" THEN None
                  ELSE IF payload[1].exp < t THEN None
                  ELSE IF payload[1].nonce = "" THEN None
                  ELSE payload

(***************************************************************************)
(* rules.rs                                                                *)
(***************************************************************************)
\* i32 addition: with overflow checks (the debug profile) a sum outside
\* the type panics, without them (the release profile) it wraps
I32_MAX == 2147483647
I32_MIN == -2147483647 - 1
i32_overflows(a, b) ==
  \/ b > 0 /\ a > I32_MAX - b
  \/ b < 0 /\ a < I32_MIN - b

i32_add(a, b) ==
  IF b > 0 /\ a > I32_MAX - b THEN I32_MIN + (a - (I32_MAX - b) - 1)
  ELSE IF b < 0 /\ a < I32_MIN - b THEN I32_MAX - ((I32_MIN - b) - a - 1)
  ELSE a + b

clamp_difficulty(value) ==
  IF value < 0 THEN 0 ELSE IF value > MAX_DIFFICULTY THEN MAX_DIFFICULTY ELSE value

\* HeaderMap::get on the headers the model carries; None when absent
HeaderGet(req, name) ==
  CASE name = "user-agent" -> IF req.ua = "" THEN None ELSE Some(req.ua)
    [] name = "sec-fetch-dest" -> IF req.sec_fetch_dest = "" THEN None ELSE Some(req.sec_fetch_dest)
    [] name = "service-worker" -> IF req.service_worker = "" THEN None ELSE Some(req.service_worker)
    [] OTHER -> None

HeaderPredicate_is_match(predicate, req) ==
  LET value == HeaderGet(req, predicate.name) IN
  IF value = None THEN FALSE
  ELSE LET value_lower == to_ascii_lowercase(value[1]) IN
       IF IsSome(predicate.equals)
         THEN value_lower = to_ascii_lowercase(predicate.equals[1])
       ELSE IF IsSome(predicate.contains)
         THEN Contains(value_lower, to_ascii_lowercase(predicate.contains[1]))
       ELSE TRUE

Matcher_is_match(matcher, req, client_ip) ==
  /\ IsSome(matcher.path_prefix) => StartsWith(req.path, matcher.path_prefix[1])
  /\ IsSome(matcher.path_exact) => req.path = matcher.path_exact[1]
  /\ IsSome(matcher.header) => HeaderPredicate_is_match(matcher.header[1], req)
  /\ matcher.ip_nets # <<>> =>
       /\ IsSome(client_ip)
       /\ \E i \in 1..Len(matcher.ip_nets) : client_ip[1] \in matcher.ip_nets[i]

\* a search that lets the last matching rule win
LastMatch(rules, i, req, client_ip) ==
  LET hits == {k \in i..Len(rules) : Matcher_is_match(rules[k].matcher, req, client_ip)}
  IN IF hits = {} THEN 0 ELSE CHOOSE k \in hits : \A j \in hits : j <= k

RECURSIVE FirstMatch(_, _, _, _)
FirstMatch(rules, i, req, client_ip) ==
  IF i > Len(rules) THEN 0
  ELSE IF Matcher_is_match(rules[i].matcher, req, client_ip) THEN i
  ELSE FirstMatch(rules, i + 1, req, client_ip)

\* Option<RuleDecision>
RulesEngine_evaluate(engine, req, client_ip) ==
  IF ~engine.enabled THEN None
  ELSE LET i == FirstMatch(engine.rules, 1, req, client_ip) IN
       IF i # 0
         THEN Some([action |-> engine.rules[i].action,
                    difficulty_delta |-> engine.rules[i].difficulty_delta])
         ELSE Some([action |-> engine.default_action, difficulty_delta |-> 0])


(***************************************************************************)
(* protocol/frame.rs and the client's decoder (wasm/src/lib.rs).  A byte   *)
(* string is a sequence of numbers 0..255.                                 *)
(***************************************************************************)
FRAME_MAGIC0 == 67
FRAME_MAGIC1 == 87
FRAME_VERSION == 1
FRAME_TYPE_TASK_REQUEST == 1
FRAME_TYPE_TASK_RESPONSE == 2
FRAME_TYPE_VERIFY_REQUEST == 3
FRAME_TYPE_VERIFY_RESPONSE == 4
FRAME_TYPE_ERROR == 5
TLV_REDIRECT == 1
TLV_TASK_ID == 2
TLV_SEED == 3
TLV_EXP == 4
TLV_BITS == 5
TLV_SCOPE == 6
TLV_UA_HASH == 7
TLV_IP_HASH == 8
TLV_WORKERS == 9
TLV_NONCE == 10
TLV_WORKER_TYPE == 11
TLV_ERROR == 15
U16_MAX == 65535

\* (n as u8), (n as u16).to_be_bytes(), (n as u32).to_be_bytes()
u8_of(n) == n % 256
u16_be(n) == << (n \div 256) % 256, n % 256 >>
u32_be(n) == << (n \div 16777216) % 256, (n \div 65536) % 256, (n \div 256) % 256, n % 256 >>

\* (exp as u64).to_be_bytes() for an exp within 32 bits: the sign fills the
\* upper four bytes
u64_be(n) ==
  IF n >= 0 THEN <<0, 0, 0, 0>> \o u32_be(n)
  ELSE LET low == n + I32_MAX + 1
       IN <<255, 255, 255, 255, 128 + ((low \div 16777216) % 256)>>
            \o << (low \div 65536) % 256, (low \div 256) % 256, low % 256 >>

\* i64::from_be_bytes, for the byte strings u64_be yields
i64_from_be(b) ==
  IF b[1] = 0 THEN ((b[5] * 256 + b[6]) * 256 + b[7]) * 256 + b[8]
  ELSE ((((b[5] - 128) * 256 + b[6]) * 256 + b[7]) * 256 + b[8]) - I32_MAX - 1

\* an append_tlv that writes the length with the low byte first
append_tlv_le(buf, t, v) ==
  IF Len(v) > U16_MAX THEN buf
  ELSE buf \o <<t, Len(v) % 256, (Len(v) \div 256) % 256>> \o v

append_tlv(buf, t, v) ==
  IF Len(v) > U16_MAX THEN buf
  ELSE buf \o <<t>> \o u16_be(Len(v)) \o v

encode_frame(frame_type, payload) ==
  <<FRAME_MAGIC0, FRAME_MAGIC1, FRAME_VERSION, frame_type>> \o u32_be(Len(payload)) \o payload

encode_task_response(resp) ==
  LET p1 == append_tlv(<<>>, TLV_TASK_ID, resp.task_id)
      p2 == append_tlv(p1, TLV_SEED, resp.seed)
      p3 == append_tlv(p2, TLV_EXP, u64_be(resp.exp))
      p4 == append_tlv(p3, TLV_BITS, u16_be(resp.bits))
      p5 == append_tlv(p4, TLV_SCOPE, resp.scope)
      p6 == append_tlv(p5, TLV_UA_HASH, resp.ua_hash)
      p7 == append_tlv(p6, TLV_IP_HASH, resp.ip_hash)
      p8 == append_tlv(p7, TLV_WORKERS, <<u8_of(resp.workers)>>)
  IN IF resp.worker_type # <<>> THEN append_tlv(p8, TLV_WORKER_TYPE, resp.worker_type)
     ELSE p8

\* the printable ASCII characters but the double quote, the backslash and
\* the grave accent: codes 35 to 91 and 97 to 126
AsciiLow == "#$%&'()*+,-./0123456789:;<=>?@ABCDEFGHIJKLMNOPQRSTUVWXYZ["
AsciiHigh == "abcdefghijklmnopqrstuvwxyz{|}~"

\* the code of a character of a string
char_code(c) ==
  IF c = " " THEN 32
  ELSE IF c = "!" THEN 33
  ELSE IF \E k \in 1..Len(AsciiLow) : SubSeq(AsciiLow, k, k) = c
    THEN 34 + CHOOSE k \in 1..Len(AsciiLow) : SubSeq(AsciiLow, k, k) = c
  ELSE IF c = "]" THEN 93
  ELSE IF c = "^" THEN 94
  ELSE IF c = "_" THEN 95
  ELSE 96 + CHOOSE k \in 1..Len(AsciiHigh) : SubSeq(AsciiHigh, k, k) = c

\* str::as_bytes of a string of these characters
as_bytes(s) == [i \in 1..Len(s) |-> char_code(SubSeq(s, i, i))]

\* U+FFFD in UTF-8
REPLACEMENT == <<239, 191, 189>>

\* String::from_utf8_lossy, the String as its UTF-8 bytes: ASCII and
\* two-byte sequences are kept, any other byte becomes U+FFFD (the byte
\* strings of the model hold no lead byte of a longer sequence followed by
\* a continuation byte)
RECURSIVE from_utf8_lossy(_)
from_utf8_lossy(v) ==
  IF v = <<>> THEN <<>>
  ELSE IF v[1] < 128 THEN <<v[1]>> \o from_utf8_lossy(SubSeq(v, 2, Len(v)))
  ELSE IF v[1] \in 194..223 /\ Len(v) >= 2 /\ v[2] \in 128..191
    THEN <<v[1], v[2]>> \o from_utf8_lossy(SubSeq(v, 3, Len(v)))
  ELSE REPLACEMENT \o from_utf8_lossy(SubSeq(v, 2, Len(v)))

is_ascii(s) == \A i \in 1..Len(s) : s[i] < 128

\* str::is_char_boundary(index), index counted from 0
is_char_boundary(s, index) ==
  index = 0 \/ index = Len(s) \/ (index < Len(s) /\ s[index + 1] \notin 128..191)

\* String::from_utf8(v).ok(), over the byte strings from_utf8_lossy covers
String_from_utf8(v) == IF from_utf8_lossy(v) = v THEN Some(v) ELSE None

\* the client: Result<(frame_type, payload)>, None for Err
parse_frame(data) ==
  IF Len(data) < 8 THEN None
  ELSE IF data[1] # FRAME_MAGIC0 \/ data[2] # FRAME_MAGIC1 THEN None
  ELSE IF data[3] # FRAME_VERSION THEN None
  ELSE IF data[5] >= 128 THEN None   \* a length no byte string of the model has
  ELSE IF Len(data) - 8 # ((data[5] * 256 + data[6]) * 256 + data[7]) * 256 + data[8]
    THEN None
  ELSE Some([frame_type |-> data[4], payload |-> SubSeq(data, 9, Len(data))])

\* the client: the fields by tag, a later one of a tag replacing an earlier
\* one; None for Err
RECURSIVE parse_tlv(_, _, _)
parse_tlv(payload, i, fields) ==
  IF i > Len(payload) THEN Some(fields)
  ELSE IF Len(payload) - (i - 1) < 3 THEN None
  ELSE LET t == payload[i]
           len == payload[i + 1] * 256 + payload[i + 2]
       IN IF Len(payload) - (i + 2) < len THEN None
          ELSE parse_tlv(payload, i + 3 + len,
                         (t :> SubSeq(payload, i + 3, i + 2 + len)) @@ fields)

\* the client: the message of the Err of parse_frame
parse_frame_error(data) ==
  IF Len(data) < 8 THEN "frame too short"
  ELSE IF data[1] # FRAME_MAGIC0 \/ data[2] # FRAME_MAGIC1 THEN "bad magic"
  ELSE IF data[3] # FRAME_VERSION THEN "bad version"
  ELSE "length mismatch"

\* the client: the message of the Err of parse_tlv
RECURSIVE parse_tlv_error(_, _)
parse_tlv_error(payload, i) ==
  IF Len(payload) - (i - 1) < 3 THEN "invalid tlv header"
  ELSE LET len == payload[i + 1] * 256 + payload[i + 2]
       IN IF Len(payload) - (i + 2) < len THEN "invalid tlv length"
          ELSE parse_tlv_error(payload, i + 3 + len)

\* the client: error_json, the parsed JSON as a record
error_json(message) == [error |-> as_bytes(message)]

\* the client: the JSON for a type-5 frame (json_escape is undone by the
\* page's JSON.parse)
decode_error_json(payload) ==
  LET tlv == parse_tlv(payload, 1, <<>>) IN
  IF tlv = None THEN error_json("invalid error")
  ELSE LET fields == tlv[1]
           message == IF TLV_ERROR \in DOMAIN fields
                        THEN String_from_utf8(fields[TLV_ERROR])
                      ELSE None
       IN IF message = None THEN error_json("error") ELSE [error |-> message[1]]

\* the client: the fields that go into the JSON it hands to the page, or
\* the error it reports
decode_task_response_json(frame) ==
  LET parsed == parse_frame(frame) IN
  IF parsed = None THEN error_json(parse_frame_error(frame))
  ELSE IF parsed[1].frame_type = FRAME_TYPE_ERROR THEN decode_error_json(parsed[1].payload)
  ELSE IF parsed[1].frame_type # FRAME_TYPE_TASK_RESPONSE
    THEN error_json("unexpected frame type")
  ELSE LET tlv == parse_tlv(parsed[1].payload, 1, <<>>) IN
       IF tlv = None THEN error_json(parse_tlv_error(parsed[1].payload, 1))
       ELSE LET fields == tlv[1]
                has(t) == t \in DOMAIN fields
            IN IF ~has(TLV_TASK_ID) THEN error_json("missing task_id")
               ELSE IF ~has(TLV_SEED) THEN error_json("missing seed")
               ELSE IF ~has(TLV_SCOPE) THEN error_json("missing scope")
               ELSE IF ~has(TLV_UA_HASH) THEN error_json("missing ua_hash")
               ELSE IF ~has(TLV_EXP) \/ Len(fields[TLV_EXP]) # 8
                 THEN error_json("missing exp")
               ELSE IF ~has(TLV_BITS) \/ Len(fields[TLV_BITS]) # 2
                 THEN error_json("missing bits")
               ELSE IF ~has(TLV_WORKERS) \/ Len(fields[TLV_WORKERS]) # 1
                 THEN error_json("missing workers")
               ELSE [task_id |-> fields[TLV_TASK_ID],
                     seed |-> fields[TLV_SEED],
                     bits |-> fields[TLV_BITS][1] * 256 + fields[TLV_BITS][2],
                     exp |-> i64_from_be(fields[TLV_EXP]),
                     scope |-> fields[TLV_SCOPE],
                     ua_hash |-> fields[TLV_UA_HASH],
                     ip_hash |-> IF has(TLV_IP_HASH) THEN fields[TLV_IP_HASH] ELSE <<>>,
                     workers |-> fields[TLV_WORKERS][1],
                     worker_type |-> IF has(TLV_WORKER_TYPE) THEN fields[TLV_WORKER_TYPE]
                                     ELSE <<119, 97, 115, 109>>]

\* the ^ of two bytes, bit by bit from bit k upwards
RECURSIVE xor_bits(_, _, _)
xor_bits(a, b, k) ==
  IF k = 8 THEN 0
  ELSE ((((a \div (2 ^ k)) % 2) + ((b \div (2 ^ k)) % 2)) % 2) * (2 ^ k)
         + xor_bits(a, b, k + 1)

\* the ^ of every two bytes, computed once: entry a * 256 + b + 1 is a ^ b
XorTable == [i \in 1..65536 |-> xor_bits((i - 1) \div 256, (i - 1) % 256, 0)] \o <<>>

xor(a, b) == XorTable[a * 256 + b + 1]

\* b"cowcatwaflibwafcatcow", the same bytes on both sides
XOR_KEY ==
  <<99, 111, 119, 99, 97, 116, 119, 97, 102, 108, 105, 98, 119, 97, 102, 99, 97, 116,
    99, 111, 119>>

\* a mask that adds the key instead of xoring it
deobfuscate_frame_add(data, key) ==
  [i \in 1..Len(data) |-> (data[i] + key[((i - 1) % Len(key)) + 1]) % 256]

\* the index idx of the code is i - 1
deobfuscate_frame(data, key) ==
  [i \in 1..Len(data) |-> xor(data[i], key[((i - 1) % Len(key)) + 1])]

\* the client's mask, over its own copy of the key
obfuscate_frame(frame) ==
  [i \in 1..Len(frame) |-> xor(frame[i], XOR_KEY[((i - 1) % Len(XOR_KEY)) + 1])]

\* a decode_frame that does not look at the version byte
decode_frame_any_version(data) ==
  IF Len(data) < 8 THEN None
  ELSE IF data[1] # FRAME_MAGIC0 \/ data[2] # FRAME_MAGIC1 THEN None
  ELSE IF data[5] >= 128 THEN None
  ELSE IF ((data[5] * 256 + data[6]) * 256 + data[7]) * 256 + data[8] # Len(data) - 8
    THEN None
  ELSE Some([frame_type |-> data[4], payload |-> SubSeq(data, 9, Len(data))])

\* the server: Result<(frame_type, payload)>, None for Err
decode_frame(data) ==
  IF Len(data) < 8 THEN None
  ELSE IF data[1] # FRAME_MAGIC0 \/ data[2] # FRAME_MAGIC1 THEN None
  ELSE IF data[3] # FRAME_VERSION THEN None
  ELSE IF data[5] >= 128 THEN None   \* a length no byte string of the model has
  ELSE IF ((data[5] * 256 + data[6]) * 256 + data[7]) * 256 + data[8] # Len(data) - 8
    THEN None
  ELSE Some([frame_type |-> data[4], payload |-> SubSeq(data, 9, Len(data))])

\* the server: Result<BinaryTaskRequest>, None for Err
decode_task_request(payload) ==
  LET tlv == parse_tlv(payload, 1, <<>>) IN
  IF tlv = None THEN None
  ELSE Some([redirect |-> IF TLV_REDIRECT \in DOMAIN tlv[1]
                            THEN from_utf8_lossy(tlv[1][TLV_REDIRECT]) ELSE <<>>])

\* the server: Result<BinaryVerifyRequest>, None for Err; an absent field
\* is the empty string
decode_verify_request(payload) ==
  LET tlv == parse_tlv(payload, 1, <<>>) IN
  IF tlv = None THEN None
  ELSE LET fields == tlv[1]
           get(t) == IF t \in DOMAIN fields THEN fields[t] ELSE <<>>
           task_id == from_utf8_lossy(get(TLV_TASK_ID))
           nonce == from_utf8_lossy(get(TLV_NONCE))
           redirect == from_utf8_lossy(get(TLV_REDIRECT))
       IN IF task_id = <<>> \/ nonce = <<>> THEN None
          ELSE Some([task_id |-> task_id, nonce |-> nonce, redirect |-> redirect])

encode_verify_response(resp) == append_tlv(<<>>, TLV_REDIRECT, resp.redirect)

encode_error_frame(message) ==
  encode_frame(FRAME_TYPE_ERROR, append_tlv(<<>>, TLV_ERROR, message))

\* a task response frame that is left as framed
encode_task_response_frame_plain(task, workers, worker_type) ==
  encode_frame(FRAME_TYPE_TASK_RESPONSE,
               encode_task_response(task @@ [workers |-> workers, worker_type |-> worker_type]))

\* task holds the seven fields the response takes from the Task
encode_task_response_frame(task, workers, worker_type) ==
  LET resp == [task_id |-> task.task_id, seed |-> task.seed, bits |-> task.bits,
               exp |-> task.exp, scope |-> task.scope, ua_hash |-> task.ua_hash,
               ip_hash |-> task.ip_hash, workers |-> workers, worker_type |-> worker_type]
      payload == encode_task_response(resp)
      frame == encode_frame(FRAME_TYPE_TASK_RESPONSE, payload)
  IN deobfuscate_frame(frame, XOR_KEY)

\* the client: build_frame writes the header encode_frame writes, and the
\* client's append_tlv is the server's
encode_verify_request(task_id, nonce, redirect) ==
  LET p1 == append_tlv(<<>>, TLV_TASK_ID, task_id)
      p2 == append_tlv(p1, TLV_NONCE, nonce)
      p3 == append_tlv(p2, TLV_REDIRECT, redirect)
  IN obfuscate_frame(encode_frame(FRAME_TYPE_VERIFY_REQUEST, p3))

\* the client: what it makes of the body of the reply of POST /task
decode_task_response(frame) == decode_task_response_json(obfuscate_frame(frame))

\* the body of the reply of POST /task for a task just stored
pow_task_reply(task, workers, worker_type) ==
  LET resp == [task_id |-> task.task_id, seed |-> task.seed, bits |-> task.bits,
               exp |-> task.exp, scope |-> task.scope, ua_hash |-> task.ua_hash,
               ip_hash |-> task.ip_hash, workers |-> workers, worker_type |-> worker_type]
      frame == encode_frame(FRAME_TYPE_TASK_RESPONSE, encode_task_response(resp))
  IN deobfuscate_frame(frame, XOR_KEY)

\* the frame build_challenge_response embeds in the page, before base64
challenge_task_frame(task, workers, worker_type) ==
  encode_task_response_frame(task, workers, worker_type)

\* a reply masked as the task response is
pow_verify_reply_masked(redirect) ==
  deobfuscate_frame(encode_frame(FRAME_TYPE_VERIFY_RESPONSE,
                                 encode_verify_response([redirect |-> redirect])), XOR_KEY)

\* the body of the reply of a verify request that succeeded
pow_verify_reply(redirect) ==
  encode_frame(FRAME_TYPE_VERIFY_RESPONSE, encode_verify_response([redirect |-> redirect]))

error_frame(message) == encode_error_frame(message)

\* what POST /verify makes of its body: the request it goes on with, or
\* None where it answers 400 with an error frame
pow_verify_request(body) ==
  IF body = <<>> THEN None
  ELSE LET deobfuscated == deobfuscate_frame(body, XOR_KEY)
           frame == decode_frame(deobfuscated)
       IN IF frame = None THEN None
          ELSE IF frame[1].frame_type # FRAME_TYPE_VERIFY_REQUEST THEN None
          ELSE decode_verify_request(frame[1].payload)

(***************************************************************************)
(* storage/task_store.rs                                                   *)
(* The map is a function from the task ids present to their Task.          *)
(***************************************************************************)
EmptyStore == [k \in {} |-> 0]

HashMap_insert(map, task) ==
  [k \in DOMAIN map \cup {task.task_id} |-> IF k = task.task_id THEN task ELSE map[k]]

\* a remove that leaves the entry in place
HashMap_remove_keeps(map, task_id) == map

HashMap_remove(map, task_id) == [k \in DOMAIN map \ {task_id} |-> map[k]]

\* an expiry test with the comparison turned round
IsExpired_reversed(task, t) == task.exp > t

\* an expiry test that also holds in the second of exp itself
IsExpired_at_exp(task, t) == task.exp <= t

\* the expiry test of consume_if
IsExpired(task, t) == task.exp < t

\* a retain that also drops the task whose exp is the present second
Retained_strict(task, t) == task.exp > t

\* the predicate of cleanup's retain
Retained(task, t) == task.exp >= t

TaskStore_insert(map, task) == HashMap_insert(map, task)

\* Result<Task, ConsumeError> together with the map it leaves behind;
\* validate[task] is "" for Ok(()) and the message of ValidationFailed otherwise
TaskStore_consume_if(map, task_id, t, validate) ==
  IF task_id \notin DOMAIN map
    THEN [map |-> map, kind |-> "NotFound", msg |-> "", task |-> None]
  ELSE LET task == map[task_id]
           removed == HashMap_remove(map, task_id)
       IN IF IsExpired(task, t)
            THEN [map |-> removed, kind |-> "Expired", msg |-> "", task |-> None]
          ELSE IF validate[task] # ""
            THEN [map |-> removed, kind |-> "ValidationFailed", msg |-> validate[task],
                  task |-> None]
          ELSE [map |-> removed, kind |-> "Ok", msg |-> "", task |-> Some(task)]

\* a cleanup that removes nothing
TaskStore_cleanup_keeps_all(map, t) == map

TaskStore_cleanup(map, t) ==
  [k \in {j \in DOMAIN map : Retained(map[j], t)} |-> map[k]]

(***************************************************************************)
(* handlers/pow.rs                                                         *)
(***************************************************************************)
headers_host(req) == IF req.host = "" THEN "unknown" ELSE req.host

BindingIpHash(client, policy) ==
  IF policy # "none" THEN compute_ip_hash(extract_client_ip(client, policy)) ELSE ""

\* a build_task that stores the difficulty level as the bit count
build_task_bits_as_levels(config, req, difficulty, id, t) ==
  [task_id |-> id,
   seed |-> id,
   bits |-> clamp_difficulty(difficulty),
   exp |-> t + TASK_TTL,
   scope |-> headers_host(req),
   ua_hash |-> compute_ua_hash(req.ua),
   ip_hash |-> BindingIpHash(req.client, config.ip_policy)]

\* a build_task that binds the task to no user-agent
build_task_unbound(config, req, difficulty, id, t) ==
  [task_id |-> id,
   seed |-> id,
   bits |-> clamp_difficulty(difficulty) * BITS_PER_LEVEL,
   exp |-> t + TASK_TTL,
   scope |-> headers_host(req),
   ua_hash |-> compute_ua_hash(""),
   ip_hash |-> BindingIpHash(req.client, config.ip_policy)]

\* build_task with the random id and seed already drawn
build_task(config, req, difficulty, id, t) ==
  [task_id |-> id,
   seed |-> id,
   bits |-> clamp_difficulty(difficulty) * BITS_PER_LEVEL,
   exp |-> t + TASK_TTL,
   scope |-> headers_host(req),
   ua_hash |-> compute_ua_hash(req.ua),
   ip_hash |-> BindingIpHash(req.client, config.ip_policy)]

\* a closure that does not compare the user-agent hash
Validator_no_ua(config, task, ua_hash, ip_hash, nonce) ==
  IF config.ip_policy # "none" /\ task.ip_hash # ip_hash THEN MSG_IP_ADDRESS_MISMATCH
  ELSE IF ~verify_pow(task, nonce) THEN MSG_INVALID_PROOF_OF_WORK
  ELSE ""

\* a closure that checks the proof of work first
Validator_pow_first(config, task, ua_hash, ip_hash, nonce) ==
  IF ~verify_pow(task, nonce) THEN MSG_INVALID_PROOF_OF_WORK
  ELSE IF task.ua_hash # ua_hash THEN MSG_USER_AGENT_MISMATCH
  ELSE IF config.ip_policy # "none" /\ task.ip_hash # ip_hash THEN MSG_IP_ADDRESS_MISMATCH
  ELSE ""

\* the closure pow_verify hands to consume_if
Validator(config, task, ua_hash, ip_hash, nonce) ==
  IF task.ua_hash # ua_hash THEN MSG_USER_AGENT_MISMATCH
  ELSE IF config.ip_policy # "none" /\ task.ip_hash # ip_hash THEN MSG_IP_ADDRESS_MISMATCH
  ELSE IF ~verify_pow(task, nonce) THEN MSG_INVALID_PROOF_OF_WORK
  ELSE ""

\* decode_frame + frame type + decode_verify_request on the unmasked body
VerifyBodyOk(body) ==
  /\ body.kind = "verify"
  /\ body.task_id # 0
  /\ body.nonce # EmptyNonce

\* the whole verify handler as a function of the state it reads:
\* the map it leaves, the response, and the consumed task
pow_verify(config, map, req, t) ==
  IF ~VerifyBodyOk(req.body)
    THEN [map |-> map, status |-> 400, msg |-> MSG_INVALID_REQUEST, cookie |-> None,
          kind |-> "BadFrame"]
  ELSE
    LET ua_hash == compute_ua_hash(req.ua)
        ip_hash == BindingIpHash(req.client, config.ip_policy)
        V == [task \in {map[k] : k \in DOMAIN map} |->
                Validator(config, task, ua_hash, ip_hash, req.body.nonce)]
        r == TaskStore_consume_if(map, req.body.task_id, t, V)
    IN CASE r.kind = "NotFound" ->
              [map |-> r.map, status |-> 400, msg |-> MSG_TASK_NOT_FOUND_OR_EXPIRED,
               cookie |-> None, kind |-> r.kind]
         [] r.kind = "Expired" ->
              [map |-> r.map, status |-> 400, msg |-> MSG_TASK_EXPIRED,
               cookie |-> None, kind |-> r.kind]
         [] r.kind = "ValidationFailed" ->
              [map |-> r.map, status |-> 400, msg |-> r.msg, cookie |-> None,
               kind |-> r.kind]
         [] r.kind = "Ok" ->
              LET task == r.task[1]
                  expire_seconds == config.cookie_expire_hours * SECONDS_PER_HOUR
              IN [map |-> r.map, status |-> 200, msg |-> "",
                  cookie |-> Some(generate_cookie(ServerSecret, task.bits, task.scope,
                                                  task.ua_hash, task.ip_hash,
                                                  req.body.nonce, expire_seconds, t)),
                  kind |-> r.kind]


(***************************************************************************)
(* middleware/pow.rs                                                       *)
(***************************************************************************)
\* a test for the prefix itself instead of paths under it
is_pow_path_exact(path) == path = POW_PREFIX

is_pow_path(path) == StartsWith(path, POW_PREFIX)

is_service_worker_request(req) ==
  IF req.method # "GET" /\ req.method # "HEAD" THEN FALSE
  ELSE LET dest == to_ascii_lowercase(req.sec_fetch_dest)
           sw == to_ascii_lowercase(req.service_worker)
       IN IF dest # "serviceworker" /\ sw # "script" THEN FALSE
          ELSE LET path == to_ascii_lowercase(req.path)
               IN EndsWith(path, ".js") \/ EndsWith(path, ".mjs")

\* a check that leaves out the address binding
verify_cookie_no_ip(config, req, value, t) ==
  LET payload == token_verify_cookie(ServerSecret, value, t) IN
  IF payload = None THEN FALSE
  ELSE payload[1].ua = compute_ua_hash(req.ua)

\* middleware verify_cookie: the token check and the two bindings
verify_cookie(config, req, value, t) ==
  LET payload == token_verify_cookie(ServerSecret, value, t) IN
  IF payload = None THEN FALSE
  ELSE IF payload[1].ua # compute_ua_hash(req.ua) THEN FALSE
  ELSE IF config.ip_policy # "none"
    THEN LET ip == extract_client_ip(req.client, config.ip_policy)
             ip_hash == compute_ip_hash(ip)
             payload_ip == IF payload[1].ip = None THEN "" ELSE payload[1].ip[1]
         IN payload_ip = ip_hash
  ELSE TRUE

evaluate_rules(config, req) ==
  RulesEngine_evaluate(config.rules, req, parse_ip(resolve_request_ip(req.client)))

Forward(step) == [kind |-> "forward", step |-> step, difficulty |-> 0]
Challenge(step, difficulty) == [kind |-> "challenge", step |-> step, difficulty |-> difficulty]
Block(step) == [kind |-> "block", step |-> step, difficulty |-> 0]
\* the handler panics: the request gets no response
Panic(step) == [kind |-> "panic", step |-> step, difficulty |-> 0]

\* a rules branch that lets a blocked request through
RuleOutcome_block_forwards(config, decision) ==
  CASE decision.action = "challenge" ->
         LET effective == clamp_difficulty(i32_add(config.difficulty,
                                                   decision.difficulty_delta))
         IN IF effective = 0 THEN Forward("rule_zero")
            ELSE Challenge("rule_challenge", effective)
    [] OTHER -> Forward("rule_allow")

\* the decision of the rules branch of pow_gate
RuleOutcome(config, decision) ==
  CASE decision.action = "allow" -> Forward("rule_allow")
    [] decision.action = "block" -> Block("rule_block")
    [] decision.action = "challenge" ->
         LET base == config.difficulty
             effective == clamp_difficulty(i32_add(base, decision.difficulty_delta))
         IN IF i32_overflows(base, decision.difficulty_delta) /\ config.overflow_checks
              THEN Panic("rule_challenge")
            ELSE IF effective = 0 THEN Forward("rule_zero")
            ELSE Challenge("rule_challenge", effective)

\* a gate that admits on the presence of a cookie
pow_gate_any_cookie(config, req, t) ==
  IF config.difficulty = 0 THEN Forward("disabled")
  ELSE IF is_pow_path(req.path) THEN Forward("internal")
  ELSE IF req.path = FAVICON_PATH THEN Forward("favicon")
  ELSE IF is_service_worker_request(req) THEN Forward("service_worker")
  ELSE IF config.test_mode THEN Challenge("test_mode", config.difficulty)
  ELSE IF IsSome(req.cookie) THEN Forward("cookie")
  ELSE LET decision == evaluate_rules(config, req) IN
       IF IsSome(decision) THEN RuleOutcome(config, decision[1])
       ELSE Challenge("default", config.difficulty)

\* a gate that evaluates the rules before it looks at the cookie
pow_gate_rules_first(config, req, t) ==
  IF config.difficulty = 0 THEN Forward("disabled")
  ELSE IF is_pow_path(req.path) THEN Forward("internal")
  ELSE IF req.path = FAVICON_PATH THEN Forward("favicon")
  ELSE IF is_service_worker_request(req) THEN Forward("service_worker")
  ELSE IF config.test_mode THEN Challenge("test_mode", config.difficulty)
  ELSE LET decision == evaluate_rules(config, req) IN
       IF IsSome(decision) THEN RuleOutcome(config, decision[1])
       ELSE IF IsSome(req.cookie) /\ verify_cookie(config, req, req.cookie[1], t)
         THEN Forward("cookie")
       ELSE Challenge("default", config.difficulty)

\* a gate that looks at the cookie before it looks at test mode
pow_gate_cookie_first(config, req, t) ==
  IF config.difficulty = 0 THEN Forward("disabled")
  ELSE IF is_pow_path(req.path) THEN Forward("internal")
  ELSE IF req.path = FAVICON_PATH THEN Forward("favicon")
  ELSE IF is_service_worker_request(req) THEN Forward("service_worker")
  ELSE IF IsSome(req.cookie) /\ verify_cookie(config, req, req.cookie[1], t)
    THEN Forward("cookie")
  ELSE IF config.test_mode THEN Challenge("test_mode", config.difficulty)
  ELSE LET decision == evaluate_rules(config, req) IN
       IF IsSome(decision) THEN RuleOutcome(config, decision[1])
       ELSE Challenge("default", config.difficulty)

\* the decision pow_gate takes: next.run, a challenge at a difficulty, or 403
pow_gate(config, req, t) ==
  IF config.difficulty = 0 THEN Forward("disabled")
  ELSE IF is_pow_path(req.path) THEN Forward("internal")
  ELSE IF req.path = FAVICON_PATH THEN Forward("favicon")
  ELSE IF is_service_worker_request(req) THEN Forward("service_worker")
  ELSE IF config.test_mode THEN Challenge("test_mode", config.difficulty)
  ELSE IF IsSome(req.cookie) /\ verify_cookie(config, req, req.cookie[1], t)
    THEN Forward("cookie")
  ELSE LET decision == evaluate_rules(config, req) IN
       IF IsSome(decision) THEN RuleOutcome(config, decision[1])
       ELSE Challenge("default", config.difficulty)

(***************************************************************************)
(* Configurations (config.rs, after load) and requests.                    *)
(***************************************************************************)
NoRules == [enabled |-> FALSE, default_action |-> "challenge", rules |-> <<>>]

AnyMatcher == [path_prefix |-> None, path_exact |-> None, header |-> None, ip_nets |-> <<>>]

\* block /admin*, allow /open, lower the difficulty to 0 under /easy, raise
\* it under /hard, challenge the rest at base difficulty
SomeRules ==
  [enabled |-> TRUE, default_action |-> "challenge",
   rules |-> <<
     [action |-> "block", difficulty_delta |-> 0,
      matcher |-> [AnyMatcher EXCEPT !.path_prefix = Some("/admin")]],
     [action |-> "allow", difficulty_delta |-> 0,
      matcher |-> [AnyMatcher EXCEPT !.path_exact = Some("/open")]],
     [action |-> "challenge", difficulty_delta |-> -1,
      matcher |-> [AnyMatcher EXCEPT !.path_prefix = Some("/easy")]],
     [action |-> "challenge", difficulty_delta |-> 1,
      matcher |-> [AnyMatcher EXCEPT !.path_prefix = Some("/hard")]] >>]

\* Spec: the three IP policies, gate at base difficulty 1, no rules
Configs ==
  [difficulty : {1}, cookie_expire_hours : {1}, ip_policy : {"none", "enable", "strict"},
   test_mode : {FALSE}, rules : {NoRules}, overflow_checks : {FALSE}]

\* SpecGate: test mode and rules on and off
GateConfigs ==
  {c \in [difficulty : {1}, cookie_expire_hours : {1}, ip_policy : {"none", "strict"},
          test_mode : BOOLEAN, rules : {NoRules, SomeRules},
          overflow_checks : {FALSE}] :
     (c.ip_policy = "strict") <=> c.rules.enabled}

\* request bodies: a body is well formed or it is not; the ill-formed ones
\* are rejected before any header is read, so one sender stands for all
Nobody == [ua |-> "", host |-> "", client |-> CHOOSE c \in Clients : c.xff = <<>> /\ c.peer = "10.0.0.1"]

TaskRequests ==
  [ua : UserAgents, host : {"site"}, client : Clients, body : {"empty", "task"}]
    \cup {[ua |-> Nobody.ua, host |-> Nobody.host, client |-> Nobody.client,
           body |-> "garbage"]}

\* for each task id a nonce that solves it at 4 bits and one that does not
VerifyBodies ==
  [kind : {"verify"}, task_id : 1..MaxTasks, nonce : Nonces]

BadVerifyBodies ==
  {[kind |-> "verify", task_id |-> 0, nonce |-> [seed |-> 1, zeros |-> 4]],
   [kind |-> "verify", task_id |-> 1, nonce |-> EmptyNonce],
   [kind |-> "garbage", task_id |-> 0, nonce |-> EmptyNonce]}

VerifyRequests ==
  {r \in [ua : UserAgents, host : {"site"}, client : Clients, body : VerifyBodies] :
     r.body.nonce.seed = r.body.task_id}
    \cup [ua : {Nobody.ua}, host : {Nobody.host}, client : {Nobody.client},
          body : BadVerifyBodies]

\* what a Cookie header can carry besides nothing: a token the server
\* issued, such a token re-signed with a guessed key or with its user-agent
\* rewritten, or a token of the attacker's own making
Resigned(token) == [payload |-> token.payload, sig |-> sign(ForgedSecret, token.payload)]
Rebound(token) == [payload |-> [token.payload EXCEPT !.ua = compute_ua_hash("curl")],
                   sig |-> token.sig]
HomeMade == generate_cookie(ForgedSecret, 4, "site", compute_ua_hash("curl"), "",
                            [seed |-> 1, zeros |-> 4], SECONDS_PER_HOUR, 3900)

CookieValues ==
  {Some(HomeMade)}
    \cup {Some(c) : c \in cookies}
    \cup {Some(Resigned(c)) : c \in cookies}
    \cup {Some(Rebound(c)) : c \in {k \in cookies : k.payload.ua # compute_ua_hash("curl")}}

PlainRequest ==
  [method |-> "GET", path |-> "/page", ua |-> "Mozilla", host |-> "site",
   client |-> Nobody.client, cookie |-> None, sec_fetch_dest |-> "", service_worker |-> ""]

\* first visits: every path the rules tell apart, and a second user-agent
FirstRequests ==
  {[PlainRequest EXCEPT !.path = pa] :
     pa \in {"/page", "/admin/x", "/open", "/easy", "/hard/x"}}
    \cup {[PlainRequest EXCEPT !.ua = "curl"]}

\* return visits: a cookie of any kind, from either user-agent and from two
\* peers, to a path the rules challenge and to one they block
ReturnRequests ==
  {[PlainRequest EXCEPT !.path = pa, !.ua = ua, !.client = cl, !.cookie = co] :
     pa \in {"/page", "/admin/x"}, ua \in UserAgents,
     cl \in {c \in Clients : c.xff = <<>>}, co \in CookieValues}

\* the paths and headers the bypass rules look at; the service-worker
\* requests vary one of method, path and headers at a time
ServiceWorkerLoad ==
  [PlainRequest EXCEPT !.path = "/admin/sw.js", !.sec_fetch_dest = "ServiceWorker"]

BypassRequests ==
  {[PlainRequest EXCEPT !.path = pa] :
     pa \in {"/__cowcatwaf/verify", "/__cowcatwafx", "/favicon.ico", "/favicon.ico/x",
             "/admin/favicon.ico"}}
    \cup {[ServiceWorkerLoad EXCEPT !.method = m] : m \in {"GET", "HEAD", "POST"}}
    \cup {[ServiceWorkerLoad EXCEPT !.path = pa] : pa \in {"/admin/SW.MJS", "/admin/js", "/page"}}
    \cup {[ServiceWorkerLoad EXCEPT !.sec_fetch_dest = h[1], !.service_worker = h[2]] :
            h \in {<<"", "script">>, <<"script", "serviceworker">>, <<"worker", "">>}}

GateRequests == FirstRequests \cup ReturnRequests \cup BypassRequests

(***************************************************************************)
(* Initial state: TaskStore::new() has spawned the sweeper, which sleeps.  *)
(***************************************************************************)
Idle == [pc |-> "idle"]

\* the thread spawn_cleanup starts, and the request threads
Sweeper == 0
Threads == 1..NumThreads
AllThreads == {Sweeper} \cup Threads

Init ==
  /\ cfg \in Configs
  /\ cap = MaxTasks
  /\ now = 0
  /\ store = EmptyStore
  /\ shadow = EmptyStore
  /\ nextId = 1
  /\ wake = TASK_CLEANUP_INTERVAL
  /\ cookies = {}
  /\ wins = [k \in 1..MaxTasks |-> 0]
  /\ lock = None
  /\ favicon_cache = RwLock_new(None)
  /\ thr = [p \in AllThreads |-> Idle]
  /\ last = [op |-> "init"]

(***************************************************************************)
(* POST /__cowcatwaf/task                                                  *)
(***************************************************************************)
TaskRequest(req, rng_ok) ==
  /\ nextId <= cap
  /\ IF req.body = "garbage"
       THEN /\ last' = [op |-> "task", status |-> 400, msg |-> MSG_INVALID_REQUEST]
            /\ UNCHANGED <<store, shadow, nextId>>
     ELSE IF ~rng_ok
       THEN /\ last' = [op |-> "task", status |-> 500,
                        msg |-> MSG_FAILED_TO_GENERATE_TASK]
            /\ UNCHANGED <<store, shadow, nextId>>
     ELSE LET task == build_task(cfg, req, cfg.difficulty, nextId, now) IN
            /\ store' = TaskStore_insert(store, task)
            /\ shadow' = TaskStore_insert(shadow, task)
            /\ nextId' = nextId + 1
            /\ last' = [op |-> "task", status |-> 200, msg |-> ""]
  /\ UNCHANGED <<favicon_cache, cfg, cap, now, wake, cookies, wins, lock, thr>>

(***************************************************************************)
(* POST /__cowcatwaf/verify                                                *)
(***************************************************************************)
VerifyRequest(req) ==
  \E r \in {pow_verify(cfg, store, req, now)}, sh \in {pow_verify(cfg, shadow, req, now)} :
     /\ store' = r.map
     /\ shadow' = sh.map
     /\ cookies' = IF IsSome(r.cookie) THEN cookies \cup {r.cookie[1]} ELSE cookies
     /\ wins' = IF r.status = 200
                  THEN [wins EXCEPT ![req.body.task_id] = @ + 1]
                  ELSE wins
     /\ last' = [op |-> "verify", task_id |-> req.body.task_id, status |-> r.status,
                 msg |-> r.msg, kind |-> r.kind,
                 found |-> req.body.task_id \in DOMAIN store]
     /\ UNCHANGED <<favicon_cache, cfg, cap, now, nextId, wake, lock, thr>>

(***************************************************************************)
(* A request through the gate.  A challenge builds a task, inserts it and  *)
(* answers 403 with the page (500 when the random generator fails); a      *)
(* forward hands the request to the next handler (status 0 here).          *)
(***************************************************************************)
GateRequest(req) ==
  \E d \in {pow_gate(cfg, req, now)} :
  LET rec == [op |-> "gate", kind |-> d.kind, step |-> d.step, difficulty |-> d.difficulty,
              rule |-> LET decision == evaluate_rules(cfg, req)
                       IN IF IsSome(decision) THEN decision[1].action ELSE "none",
              delta |-> LET decision == evaluate_rules(cfg, req)
                        IN IF IsSome(decision) THEN decision[1].difficulty_delta ELSE 0,
              ua |-> req.ua, client |-> req.client,
              cookie_sent |-> IsSome(req.cookie),
              valid_cookie |-> IsSome(req.cookie)
                                 /\ verify_cookie(cfg, req, req.cookie[1], now)]
  IN
  /\ IF d.kind = "challenge"
       THEN /\ nextId <= cap
            /\ \E rng_ok \in BOOLEAN :
                 IF rng_ok
                   THEN LET task == build_task(cfg, req, d.difficulty, nextId, now) IN
                          /\ store' = TaskStore_insert(store, task)
                          /\ shadow' = TaskStore_insert(shadow, task)
                          /\ nextId' = nextId + 1
                          /\ last' = rec @@ [status |-> 403, body |-> "challenge page",
                                             task |-> Some(task)]
                   ELSE /\ last' = rec @@ [status |-> 500, body |-> "", task |-> None]
                        /\ UNCHANGED <<store, shadow, nextId>>
       ELSE /\ last' = rec @@ [status |-> IF d.kind = "block" THEN 403 ELSE 0,
                               body |-> IF d.kind = "forward" THEN "upstream" ELSE "",
                               task |-> None]
            /\ UNCHANGED <<store, shadow, nextId>>
  /\ UNCHANGED <<favicon_cache, cfg, cap, now, wake, cookies, wins, lock, thr>>

(***************************************************************************)
(* The sweeper thread: sleep TASK_CLEANUP_INTERVAL, cleanup, repeat.       *)
(***************************************************************************)
Sweep ==
  /\ now >= wake
  /\ store' = TaskStore_cleanup(store, now)
  /\ wake' = now + TASK_CLEANUP_INTERVAL
  /\ last' = [op |-> "sweep"]
  /\ UNCHANGED <<favicon_cache, cfg, cap, now, nextId, cookies, wins, shadow, lock, thr>>

Tick(t) ==
  /\ t > now
  /\ now' = t
  /\ last' = [op |-> "tick"]
  /\ UNCHANGED <<favicon_cache, cfg, cap, store, nextId, wake, cookies, wins, shadow, lock, thr>>

NextStore ==
  \/ \E req \in TaskRequests, rng_ok \in BOOLEAN : TaskRequest(req, rng_ok)
  \/ \E req \in VerifyRequests : VerifyRequest(req)
  \/ Sweep
  \/ \E t \in Instants : Tick(t)

(***************************************************************************)
(* SpecLive: Spec with the scheduling the program has.  The sweeper thread *)
(* loops for ever (sleep, cleanup), so a sweep that stays due is run; the  *)
(* clock advances.  The clock of the model ends at LastInstant, so tasks   *)
(* are issued only while their expiry lies before it.                      *)
(***************************************************************************)
LastInstant == CHOOSE t \in Instants : \A u \in Instants : u <= t

LiveTaskRequest(req, rng_ok) ==
  /\ now + TASK_TTL < LastInstant
  /\ TaskRequest(req, rng_ok)

NextLive ==
  \/ \E req \in TaskRequests, rng_ok \in BOOLEAN : LiveTaskRequest(req, rng_ok)
  \/ \E req \in VerifyRequests : VerifyRequest(req)
  \/ Sweep
  \/ \E t \in Instants : Tick(t)

SpecLive ==
  /\ Init
  /\ [][NextLive]_vars
  /\ WF_vars(Sweep)
  /\ WF_vars(\E t \in Instants : Tick(t))

\* SpecGate: a cookie issued at 0 has expired by 3900, one issued at 300
\* expires in that very second
GateInstants == {t \in Instants : t \in {0, TASK_CLEANUP_INTERVAL} \/ t > SECONDS_PER_HOUR}

\* SpecGate: the browser that solves challenges, at one address
GateTaskRequests ==
  {r \in TaskRequests : r.body = "task" /\ r.ua = "Mozilla" /\ r.client = Nobody.client}

GateVerifyRequests ==
  {r \in VerifyRequests :
     VerifyBodyOk(r.body) /\ r.ua = "Mozilla" /\ r.client = Nobody.client}

Next ==
  \/ \E req \in GateTaskRequests, rng_ok \in BOOLEAN : TaskRequest(req, rng_ok)
  \/ \E req \in GateVerifyRequests : VerifyRequest(req)
  \/ \E req \in GateRequests : GateRequest(req)
  \/ Sweep
  \/ \E t \in GateInstants : Tick(t)

Spec == Init /\ [][NextStore]_vars

InitGate ==
  /\ cfg \in GateConfigs
  /\ cap = MaxGateTasks
  /\ now = 0
  /\ store = EmptyStore
  /\ shadow = EmptyStore
  /\ nextId = 1
  /\ wake = TASK_CLEANUP_INTERVAL
  /\ cookies = {}
  /\ wins = [k \in 1..MaxTasks |-> 0]
  /\ lock = None
  /\ favicon_cache = RwLock_new(None)
  /\ thr = [p \in AllThreads |-> Idle]
  /\ last = [op |-> "init"]

SpecGate == InitGate /\ [][Next]_vars


(***************************************************************************)
(* SpecRaise: one browser, the rules of SomeRules (a Challenge rule with   *)
(* delta +1 under /hard), POST /task, POST /verify with nonces of 4 and of *)
(* 8 leading zero bits, and requests through the gate to /page and to      *)
(* /hard/x without a cookie and with each cookie issued so far.            *)
(***************************************************************************)
RaiseConfigs == {c \in GateConfigs : c.rules.enabled /\ ~c.test_mode}

RaiseVerifyRequests ==
  {[ua |-> "Mozilla", host |-> "site", client |-> Nobody.client,
    body |-> [kind |-> "verify", task_id |-> id, nonce |-> [seed |-> id, zeros |-> z]]] :
     id \in 1..MaxRaiseTasks, z \in {BITS_PER_LEVEL, 2 * BITS_PER_LEVEL}}

RaiseRequests ==
  {[PlainRequest EXCEPT !.path = pa, !.cookie = co] :
     pa \in {"/page", "/hard/x"}, co \in {None} \cup {Some(c) : c \in cookies}}

InitRaise ==
  /\ cfg \in RaiseConfigs
  /\ cap = MaxRaiseTasks
  /\ now = 0
  /\ store = EmptyStore
  /\ shadow = EmptyStore
  /\ nextId = 1
  /\ wake = TASK_CLEANUP_INTERVAL
  /\ cookies = {}
  /\ wins = [k \in 1..MaxTasks |-> 0]
  /\ lock = None
  /\ favicon_cache = RwLock_new(None)
  /\ thr = [p \in AllThreads |-> Idle]
  /\ last = [op |-> "init"]

NextRaise ==
  \/ \E req \in GateTaskRequests, rng_ok \in BOOLEAN : TaskRequest(req, rng_ok)
  \/ \E req \in RaiseVerifyRequests : VerifyRequest(req)
  \/ \E req \in RaiseRequests : GateRequest(req)
  \/ Sweep
  \/ \E t \in GateInstants : Tick(t)

SpecRaise == InitRaise /\ [][NextRaise]_vars

(***************************************************************************)
(* SpecFavicon: handlers/favicon.rs.  Each request runs favicon_handler    *)
(* step by step: read guard, validity check, upstream request, write       *)
(* guard, the assignment to the slot, response.  The assignment moves a    *)
(* struct of several words, so it is two steps: status and headers, then   *)
(* body and cached_at.  The proxy target was parsed when the state was     *)
(* built (state.rs parse_proxy_target), so the handler's own parse of it   *)
(* succeeds.                                                               *)
(***************************************************************************)
\* what the upstream answers for /favicon.ico
UpstreamResponses ==
  {[status |-> 200, headers |-> "image/x-icon", body |-> "ico1"],
   [status |-> 203, headers |-> "image/png", body |-> "ico2"],
   [status |-> 404, headers |-> "text/plain", body |-> "not found"],
   [status |-> 500, headers |-> "text/html", body |-> "oops"]}

\* the request or the reading of the body fails
UpstreamFailure == [status |-> 0, headers |-> "", body |-> ""]

\* StatusCode::is_success
is_success(status) == status >= 200 /\ status < 300

\* FaviconCache::is_valid at time t
FaviconCache_is_valid(cached, t) == t - cached.cached_at < FAVICON_TTL

\* a read guard that does not wait for the writer
RwLock_can_read_always(l) == TRUE

\* RwLock::read is granted while no write guard is held
RwLock_can_read(l) == l.writer = None

\* RwLock::write is granted while no guard is held
RwLock_can_write(l) == l.writer = None /\ l.readers = {}

FaviconStep(p, step, from, status, headers, body, age) ==
  [op |-> "favicon", thread |-> p, step |-> step, from |-> from, status |-> status,
   headers |-> headers, body |-> body, age |-> age]

FaviconFrame == <<cfg, cap, store, shadow, nextId, wake, cookies, wins, lock, now>>

\* let cache = state.favicon_cache.read().await
favicon_read(p) ==
  /\ thr[p].pc = "idle"
  /\ RwLock_can_read(favicon_cache)
  /\ favicon_cache' = [favicon_cache EXCEPT !.readers = @ \cup {p}]
  /\ thr' = [thr EXCEPT ![p] = [pc |-> "check"]]
  /\ last' = FaviconStep(p, "read", "", 0, "", "", 0)
  /\ UNCHANGED FaviconFrame

\* the block under the read guard: answer from the slot, or go on
favicon_check(p) ==
  /\ thr[p].pc = "check"
  /\ favicon_cache' = [favicon_cache EXCEPT !.readers = @ \ {p}]
  /\ IF IsSome(favicon_cache.value) /\ FaviconCache_is_valid(favicon_cache.value[1], now)
       THEN LET cached == favicon_cache.value[1] IN
            /\ thr' = [thr EXCEPT ![p] = Idle]
            /\ last' = FaviconStep(p, "check", "cache", cached.status, cached.headers,
                                   cached.body, now - cached.cached_at)
       ELSE /\ thr' = [thr EXCEPT ![p] = [pc |-> "request"]]
            /\ last' = FaviconStep(p, "check", "", 0, "", "", 0)
  /\ UNCHANGED FaviconFrame

\* proxy_client.request and body.collect: 502 on failure; a response that
\* is not 2xx is passed on; a 2xx response is put into a FaviconCache
favicon_request(p, resp) ==
  /\ thr[p].pc = "request"
  /\ IF resp = UpstreamFailure
       THEN /\ thr' = [thr EXCEPT ![p] = Idle]
            /\ last' = FaviconStep(p, "request", "upstream", 502, "", "", 0)
     ELSE IF ~is_success(resp.status)
       THEN /\ thr' = [thr EXCEPT ![p] = Idle]
            /\ last' = FaviconStep(p, "request", "upstream", resp.status, resp.headers,
                                   resp.body, 0)
     ELSE /\ thr' = [thr EXCEPT ![p] =
                       [pc |-> "write",
                        cache |-> [status |-> resp.status, headers |-> resp.headers,
                                   body |-> resp.body, cached_at |-> now]]]
          /\ last' = FaviconStep(p, "request", "", 0, "", "", 0)
  /\ UNCHANGED <<favicon_cache, cfg, cap, store, shadow, nextId, wake, cookies, wins, lock, now>>

\* state.favicon_cache.write().await
favicon_write(p) ==
  /\ thr[p].pc = "write"
  /\ RwLock_can_write(favicon_cache)
  /\ favicon_cache' = [favicon_cache EXCEPT !.writer = Some(p)]
  /\ thr' = [thr EXCEPT ![p] = [@ EXCEPT !.pc = "store_head"]]
  /\ last' = FaviconStep(p, "write", "", 0, "", "", 0)
  /\ UNCHANGED FaviconFrame

\* *guard = Some(cache), first words: the slot holds the new status and
\* headers with the body and the time it held before (none: empty, 0)
favicon_store_head(p) ==
  /\ thr[p].pc = "store_head"
  /\ LET old == IF IsSome(favicon_cache.value) THEN favicon_cache.value[1]
                ELSE [status |-> 0, headers |-> "", body |-> "", cached_at |-> 0]
     IN favicon_cache' =
          [favicon_cache EXCEPT !.value = Some([old EXCEPT !.status = thr[p].cache.status,
                                                           !.headers = thr[p].cache.headers])]
  /\ thr' = [thr EXCEPT ![p] = [@ EXCEPT !.pc = "store_tail"]]
  /\ last' = FaviconStep(p, "store_head", "", 0, "", "", 0)
  /\ UNCHANGED FaviconFrame

\* *guard = Some(cache), the remaining words; the guard is dropped
favicon_store_tail(p) ==
  /\ thr[p].pc = "store_tail"
  /\ favicon_cache' = [favicon_cache EXCEPT !.value = Some(thr[p].cache), !.writer = None]
  /\ thr' = [thr EXCEPT ![p] = [@ EXCEPT !.pc = "respond"]]
  /\ last' = FaviconStep(p, "store_tail", "", 0, "", "", 0)
  /\ UNCHANGED FaviconFrame

\* the response built from the upstream's
favicon_respond(p) ==
  /\ thr[p].pc = "respond"
  /\ thr' = [thr EXCEPT ![p] = Idle]
  /\ last' = FaviconStep(p, "respond", "upstream", thr[p].cache.status, thr[p].cache.headers,
                         thr[p].cache.body, 0)
  /\ UNCHANGED <<favicon_cache, cfg, cap, store, shadow, nextId, wake, cookies, wins, lock, now>>

InitFavicon ==
  /\ cfg \in {c \in Configs : c.ip_policy = "none"}
  /\ cap = 0
  /\ now = 0
  /\ store = EmptyStore
  /\ shadow = EmptyStore
  /\ nextId = 1
  /\ wake = TASK_CLEANUP_INTERVAL
  /\ cookies = {}
  /\ wins = [k \in 1..MaxTasks |-> 0]
  /\ lock = None
  /\ favicon_cache = RwLock_new(None)
  /\ thr = [p \in AllThreads |-> Idle]
  /\ last = [op |-> "init"]

NextFavicon ==
  \/ \E p \in Threads : favicon_read(p)
  \/ \E p \in Threads : favicon_check(p)
  \/ \E p \in Threads, resp \in UpstreamResponses \cup {UpstreamFailure} : favicon_request(p, resp)
  \/ \E p \in Threads : favicon_write(p)
  \/ \E p \in Threads : favicon_store_head(p)
  \/ \E p \in Threads : favicon_store_tail(p)
  \/ \E p \in Threads : favicon_respond(p)
  \/ \E t \in Instants : Tick(t)

SpecFavicon == InitFavicon /\ [][NextFavicon]_vars

(***************************************************************************)
(* SpecLock: the store at the grain of its mutex.  A verify thread runs    *)
(* consume_if step by step; HashMap::remove is a find followed by an       *)
(* erase; the sweeper reads the clock, then locks, then retains.           *)
(***************************************************************************)
\* a lock() that does not wait for the holder
CanLock_always(l) == TRUE

\* Mutex::lock returns once no thread holds the guard
CanLock(l) == l = None

LockClient == Nobody.client

LockTaskRequests ==
  {r \in TaskRequests : r.body = "task" /\ r.client = LockClient}

LockVerifyRequests ==
  {r \in VerifyRequests :
     VerifyBodyOk(r.body) /\ r.client = LockClient /\ r.ua = "Mozilla"}

\* the clock, as in Tick
clock_advance ==
  \E t \in Instants :
    /\ t > now
    /\ now' = t
    /\ UNCHANGED <<favicon_cache, cfg, last, cap, store, nextId, wake, cookies, wins, shadow, lock, thr>>

\* pow_verify up to the call of consume_if
pow_verify_begin(p, req) ==
  /\ thr[p].pc = "idle"
  /\ thr' = [thr EXCEPT ![p] = [pc |-> "lock", req |-> req, task |-> None, kind |-> "",
                                 msg |-> "", live |-> req.body.task_id \in DOMAIN store]]
  /\ UNCHANGED <<favicon_cache, cfg, last, cap, now, store, nextId, wake, cookies, wins, shadow, lock>>

consume_if_lock(p) ==
  /\ thr[p].pc = "lock"
  /\ CanLock(lock)
  /\ lock' = Some(p)
  /\ thr' = [thr EXCEPT ![p].pc = "find"]
  /\ UNCHANGED <<favicon_cache, cfg, last, cap, now, store, nextId, wake, cookies, wins, shadow>>

consume_if_find(p) ==
  /\ thr[p].pc = "find"
  /\ LET id == thr[p].req.body.task_id IN
       thr' = IF id \in DOMAIN store
                THEN [thr EXCEPT ![p].pc = "erase", ![p].task = Some(store[id])]
                ELSE [thr EXCEPT ![p].pc = "return", ![p].kind = "NotFound"]
  /\ UNCHANGED <<favicon_cache, cfg, last, cap, now, store, nextId, wake, cookies, wins, shadow, lock>>

consume_if_erase(p) ==
  /\ thr[p].pc = "erase"
  /\ store' = HashMap_remove(store, thr[p].req.body.task_id)
  /\ shadow' = HashMap_remove(shadow, thr[p].req.body.task_id)
  /\ thr' = [thr EXCEPT ![p].pc = "expiry"]
  /\ UNCHANGED <<favicon_cache, cfg, last, cap, now, nextId, wake, cookies, wins, lock>>

consume_if_expiry(p) ==
  /\ thr[p].pc = "expiry"
  /\ thr' = IF IsExpired(thr[p].task[1], now)
              THEN [thr EXCEPT ![p].pc = "return", ![p].kind = "Expired"]
              ELSE [thr EXCEPT ![p].pc = "validate"]
  /\ UNCHANGED <<favicon_cache, cfg, last, cap, now, store, nextId, wake, cookies, wins, shadow, lock>>

consume_if_validate(p) ==
  /\ thr[p].pc = "validate"
  /\ LET req == thr[p].req
         m == Validator(cfg, thr[p].task[1], compute_ua_hash(req.ua),
                        BindingIpHash(req.client, cfg.ip_policy), req.body.nonce)
     IN thr' = [thr EXCEPT ![p].pc = "return",
                           ![p].kind = IF m = "" THEN "Ok" ELSE "ValidationFailed",
                           ![p].msg = m]
  /\ UNCHANGED <<favicon_cache, cfg, last, cap, now, store, nextId, wake, cookies, wins, shadow, lock>>

\* consume_if returns and its guard is dropped
consume_if_return(p) ==
  /\ thr[p].pc = "return"
  /\ lock' = None
  /\ thr' = [thr EXCEPT ![p].pc = "respond"]
  /\ UNCHANGED <<favicon_cache, cfg, last, cap, now, store, nextId, wake, cookies, wins, shadow>>

\* pow_verify after consume_if: the error response, or the cookie
pow_verify_respond(p) ==
  /\ thr[p].pc = "respond"
  /\ thr' = [thr EXCEPT ![p].pc = "done"]
  /\ IF thr[p].kind = "Ok"
       THEN LET task == thr[p].task[1] IN
            /\ cookies' = cookies \cup
                 {generate_cookie(ServerSecret, task.bits, task.scope, task.ua_hash,
                                  task.ip_hash, thr[p].req.body.nonce,
                                  cfg.cookie_expire_hours * SECONDS_PER_HOUR, now)}
            /\ wins' = [wins EXCEPT ![task.task_id] = @ + 1]
       ELSE UNCHANGED <<cookies, wins>>
  /\ UNCHANGED <<favicon_cache, cfg, last, cap, now, store, nextId, wake, shadow, lock>>

\* TaskStore::insert: lock, insert, drop the guard
insert_locked(req) ==
  /\ nextId <= cap
  /\ CanLock(lock)
  /\ LET task == build_task(cfg, req, cfg.difficulty, nextId, now) IN
       /\ store' = TaskStore_insert(store, task)
       /\ shadow' = TaskStore_insert(shadow, task)
  /\ nextId' = nextId + 1
  /\ UNCHANGED <<favicon_cache, cfg, last, cap, now, wake, cookies, wins, lock, thr>>

\* the sweeper wakes and cleanup reads the clock
cleanup_now ==
  /\ thr[Sweeper].pc = "idle"
  /\ now >= wake
  /\ thr' = [thr EXCEPT ![Sweeper] = [pc |-> "lock", t |-> now]]
  /\ UNCHANGED <<favicon_cache, cfg, last, cap, now, store, nextId, wake, cookies, wins, shadow, lock>>

cleanup_lock ==
  /\ thr[Sweeper].pc = "lock"
  /\ CanLock(lock)
  /\ lock' = Some(Sweeper)
  /\ thr' = [thr EXCEPT ![Sweeper].pc = "retain"]
  /\ UNCHANGED <<favicon_cache, cfg, last, cap, now, store, nextId, wake, cookies, wins, shadow>>

\* retain, the guard is dropped, and the next sleep begins
cleanup_retain ==
  /\ thr[Sweeper].pc = "retain"
  /\ store' = TaskStore_cleanup(store, thr[Sweeper].t)
  /\ lock' = None
  /\ thr' = [thr EXCEPT ![Sweeper] = Idle]
  /\ wake' = now + TASK_CLEANUP_INTERVAL
  /\ UNCHANGED <<favicon_cache, cfg, last, cap, now, nextId, cookies, wins, shadow>>

NextLock ==
  \/ \E p \in Threads, req \in LockVerifyRequests : pow_verify_begin(p, req)
  \/ \E p \in Threads : consume_if_lock(p)
  \/ \E p \in Threads : consume_if_find(p)
  \/ \E p \in Threads : consume_if_erase(p)
  \/ \E p \in Threads : consume_if_expiry(p)
  \/ \E p \in Threads : consume_if_validate(p)
  \/ \E p \in Threads : consume_if_return(p)
  \/ \E p \in Threads : pow_verify_respond(p)
  \/ \E req \in LockTaskRequests : insert_locked(req)
  \/ cleanup_now
  \/ cleanup_lock
  \/ cleanup_retain
  \/ clock_advance

InitLock ==
  /\ cfg \in {c \in Configs : c.ip_policy = "none"}
  /\ cap = MaxLockTasks
  /\ now = 0
  /\ store = EmptyStore
  /\ shadow = EmptyStore
  /\ nextId = 1
  /\ wake = TASK_CLEANUP_INTERVAL
  /\ cookies = {}
  /\ wins = [k \in 1..MaxTasks |-> 0]
  /\ lock = None
  /\ favicon_cache = RwLock_new(None)
  /\ thr = [p \in AllThreads |-> Idle]
  /\ last = [op |-> "init"]

SpecLock == InitLock /\ [][NextLock]_vars

(***************************************************************************)
(* SpecDifficulty: the gate under every base difficulty and a rule that    *)
(* answers Challenge with a delta from the whole range of i32, built with  *)
(* and without overflow checks.                                            *)
(***************************************************************************)
\* the ends of the i32 range and the values around zero
Deltas ==
  {I32_MIN + k : k \in 0..(MAX_DIFFICULTY + 1)}
    \cup {k - (MAX_DIFFICULTY + 1) : k \in 0..(2 * (MAX_DIFFICULTY + 1))}
    \cup {I32_MAX - k : k \in 0..(MAX_DIFFICULTY + 1)}

ChallengeRules(delta) ==
  [enabled |-> TRUE, default_action |-> "block",
   rules |-> << [action |-> "challenge", difficulty_delta |-> delta,
                 matcher |-> AnyMatcher] >>]

\* config.rs validate admits difficulty 0..=10
DifficultyConfigs ==
  [difficulty : 0..MAX_DIFFICULTY, cookie_expire_hours : {1}, ip_policy : {"none"},
   test_mode : {FALSE}, rules : {ChallengeRules(delta) : delta \in Deltas},
   overflow_checks : BOOLEAN]

InitDifficulty ==
  /\ cfg \in DifficultyConfigs
  /\ cap = MaxDifficultyTasks
  /\ now = 0
  /\ store = EmptyStore
  /\ shadow = EmptyStore
  /\ nextId = 1
  /\ wake = TASK_CLEANUP_INTERVAL
  /\ cookies = {}
  /\ wins = [k \in 1..MaxTasks |-> 0]
  /\ lock = None
  /\ favicon_cache = RwLock_new(None)
  /\ thr = [p \in AllThreads |-> Idle]
  /\ last = [op |-> "init"]

NextDifficulty ==
  \/ \E req \in {PlainRequest} : GateRequest(req)

SpecDifficulty == InitDifficulty /\ [][NextDifficulty]_vars

(***************************************************************************)
(* SpecCalls: the functions of the program that keep no state, each        *)
(* applied once to arguments drawn in the initial state.  Thread 1 holds   *)
(* the call: its arguments while it is pending, its result when it has     *)
(* returned.                                                               *)
(***************************************************************************)
\* rules.rs: every combination of the four predicates of a Matcher; an
\* IpNet is the set of the addresses it contains
RuleMatchers ==
  [path_prefix : {None, Some("/a")},
   path_exact : {None, Some("/a/b")},
   header : {None, Some([name |-> "user-agent", equals |-> None,
                         contains |-> Some("bot")])},
   ip_nets : {<<>>, <<{"10.0.0.1"}>>}]

\* the rule at position i of the list: its action and delta tell which
\* position a decision came from
RuleAt(i, m) ==
  [action |-> IF i % 2 = 1 THEN "block" ELSE "allow", difficulty_delta |-> i,
   matcher |-> m]

RuleEngines ==
  {[enabled |-> e, default_action |-> a,
    rules |-> [i \in 1..n |-> RuleAt(i, ms[i])]] :
     e \in BOOLEAN, a \in {"allow", "block", "challenge"},
     ms \in [1..MaxRules -> RuleMatchers], n \in 0..MaxRules}

RuleCalls ==
  [pc : {"call"}, fn : {"evaluate"}, engine : RuleEngines,
   req : {[PlainRequest EXCEPT !.path = pa, !.ua = ua] :
            pa \in {"/a", "/a/b", "/c"}, ua \in {"Mozilla", "GoogleBot"}},
   client_ip : {None, Some("10.0.0.1"), Some("10.0.0.2")}]

\* crypto/token.rs: a cookie generated at one time and verified at another
CookieCalls ==
  [pc : {"call"}, fn : {"cookie"}, secret : {ServerSecret, ForgedSecret},
   bits : {BITS_PER_LEVEL, BITS_PER_LEVEL * MAX_DIFFICULTY}, scope : {"site", "a.b"},
   ua_hash : {"uaHash="}, ip_hash : {"", "ipHash="}, nonce : {"", "n 1"},
   duration_seconds : CookieDurations, issued : CookieTimes,
   verified : CookieTimes \cup {TASK_CLEANUP_INTERVAL + 1, SECONDS_PER_HOUR,
                                SECONDS_PER_HOUR + 1}]

\* cookies the server issued at time 0, and what a client can make of one:
\* one byte changed, white space, quotes and padding around it, a half cut
\* off, the signature of another key
IssuedTokens ==
  {wire_generate_cookie(ServerSecret, BITS_PER_LEVEL, scope, "uaHash=", ip_hash, "n 1",
                        SECONDS_PER_HOUR, 0) :
     scope \in {"site", "a.b"}, ip_hash \in {"", "ipHash="}}

FlipChars == {"A", "_", "=", "\"", " ", "."}

Replace(token, pos, ch) ==
  SubSeq(token, 1, pos - 1) \o ch \o SubSeq(token, pos + 1, Len(token))

Flipped(token) ==
  {[raw |-> Replace(token, pos, ch), flip |-> pos] :
     pos \in 1..Len(token), ch \in FlipChars}

Reshaped(token) ==
  LET dot == find(token, ".")
      payload_b64 == SubSeq(token, 1, dot - 1)
  IN {[raw |-> pre \o token \o suf, flip |-> 0] :
        pre \in {"", " ", "\"", " \""}, suf \in {"", "=", "\"", "==\" "}}
     \cup {[raw |-> r, flip |-> 0] :
             r \in {payload_b64, payload_b64 \o ".", SubSeq(token, dot, Len(token)),
                    payload_b64 \o "==." \o SubSeq(token, dot + 1, Len(token)),
                    payload_b64 \o "." \o wire_sign(ForgedSecret, payload_b64)}}

TamperCalls ==
  UNION {{[pc |-> "call", fn |-> "tamper", token |-> token, raw |-> e.raw,
           flip |-> e.flip] : e \in Flipped(token) \cup Reshaped(token)} :
         token \in IssuedTokens}

\* protocol/frame.rs: BinaryTaskResponse.  Values the server builds (bits
\* 0..40, workers 1..8, worker_type wasm or native) and values the i32 and
\* String fields admit beyond them; a Host header can exceed the 65535
\* bytes a TLV length can say
LongString(n) == [i \in 1..n |-> 97]

ShortResponses ==
  [task_id : {<<116, 49>>}, seed : {<<115>>},
   bits : {0, BITS_PER_LEVEL * MAX_DIFFICULTY, U16_MAX, U16_MAX + 1, -1},
   exp : {0, TASK_TTL, -1, I32_MAX, I32_MIN},
   scope : {<<>>, <<115, 105, 116, 101>>}, ua_hash : {<<117>>},
   ip_hash : {<<>>, <<105>>},
   workers : {1, 8, 255, 256, -1},
   worker_type : {<<>>, <<119, 97, 115, 109>>, <<110, 97, 116, 105, 118, 101>>}]

TaskResponses ==
  ShortResponses
    \cup {[task_id |-> <<116, 49>>, seed |-> <<115>>, bits |-> BITS_PER_LEVEL,
           exp |-> TASK_TTL, scope |-> LongString(n), ua_hash |-> <<117>>,
           ip_hash |-> <<105>>, workers |-> 1, worker_type |-> <<119, 97, 115, 109>>] :
         n \in {U16_MAX, U16_MAX + 1}}

ResponseCalls == [pc : {"call"}, fn : {"task_response"}, resp : TaskResponses]

\* byte strings shorter than the key, of its length and longer, every byte
\* value at every position of the key, and frames
Bytes(n) == [i \in 1..n |-> (i * 37) % 256]

MaskInputs ==
  {<<>>} \cup [1..2 -> {0, 99, 128, 255}]
    \cup {[i \in 1..n |-> v] : n \in 1..(Len(XOR_KEY) + 1), v \in 0..255}
    \cup {Bytes(n) : n \in {Len(XOR_KEY) - 1, Len(XOR_KEY), Len(XOR_KEY) + 1,
                             2 * Len(XOR_KEY), 2 * Len(XOR_KEY) + 1}}
    \cup {XOR_KEY, XOR_KEY \o XOR_KEY}
    \cup {encode_frame(FRAME_TYPE_TASK_RESPONSE, encode_task_response(resp)) :
            resp \in {r \in ShortResponses : r.exp = TASK_TTL /\ r.workers = 8}}

MaskCalls == [pc : {"call"}, fn : {"mask"}, data : MaskInputs]

\* the fields of a Task that reach the wire
WireTasks ==
  [task_id : {<<116, 49>>}, seed : {<<115>>, <<115, 101, 101, 100>>},
   bits : {BITS_PER_LEVEL, BITS_PER_LEVEL * MAX_DIFFICULTY},
   exp : {TASK_TTL}, scope : {<<>>, <<115, 105, 116, 101>>}, ua_hash : {<<117>>},
   ip_hash : {<<>>, <<105>>}]

\* "/", "" and "/a?b"
Redirects == {<<47>>, <<>>, <<47, 97, 63, 98>>}

\* "invalid request", "task expired"
Messages ==
  {<<105, 110, 118, 97, 108, 105, 100, 32, 114, 101, 113, 117, 101, 115, 116>>,
   <<116, 97, 115, 107, 32, 101, 120, 112, 105, 114, 101, 100>>}

EmitCalls ==
  [pc : {"call"}, fn : {"emit"}, kind : {"task", "page"}, task : WireTasks,
   workers : {1, 8}, worker_type : {<<>>, <<119, 97, 115, 109>>}]
    \cup [pc : {"call"}, fn : {"emit"}, kind : {"verify"}, redirect : Redirects]
    \cup [pc : {"call"}, fn : {"emit"}, kind : {"error"}, message : Messages]

\* bodies of POST /verify: what the client sends, the same left plain, other
\* frames masked and plain, and bytes that are no frame
VerifyFrames ==
  LET sent == {encode_verify_request(t, n, r) :
                 t \in {<<>>, <<116, 49>>}, n \in {<<>>, <<49, 50>>}, r \in Redirects}
      other == {obfuscate_frame(encode_frame(FRAME_TYPE_TASK_REQUEST,
                                             append_tlv(<<>>, TLV_REDIRECT, r))) :
                  r \in Redirects}
                 \cup {pow_verify_reply(r) : r \in Redirects}
                 \cup {obfuscate_frame(encode_frame(FRAME_TYPE_VERIFY_REQUEST, <<TLV_TASK_ID, 0>>))}
  IN {<<>>, <<67, 87, 1, 3>>} \cup sent \cup {obfuscate_frame(b) : b \in sent}
       \cup other \cup {obfuscate_frame(b) : b \in other}

VerifyBodyCalls == [pc : {"call"}, fn : {"verify_body"}, body : VerifyFrames]

(***************************************************************************)
(* crypto/pow.rs on bytes: the preimage verify_pow feeds to SHA-256 and    *)
(* the count over the digest.  SHA-256 itself is an argument: digest is    *)
(* what it returns for the preimage.                                       *)
(***************************************************************************)
POW_DIVIDER == "|"

\* the fields in the order verify_pow appends them, a divider after each
\* but the last
pow_preimage(task, nonce) ==
  POW_VERSION \o POW_DIVIDER \o task.seed \o POW_DIVIDER \o ToString(task.exp) \o POW_DIVIDER
    \o ToString(task.bits) \o POW_DIVIDER \o task.scope \o POW_DIVIDER \o task.ua_hash
    \o POW_DIVIDER \o nonce

\* the inner loop: bits i down to 0 of a byte, up to the first 1
RECURSIVE byte_leading_zero_bits(_, _)
byte_leading_zero_bits(byte, i) ==
  IF i < 0 THEN 0
  ELSE IF (byte \div (2 ^ i)) % 2 = 0 THEN 1 + byte_leading_zero_bits(byte, i - 1)
  ELSE 0

\* a count that takes a byte with a zero high nibble for four bits and
\* stops there
RECURSIVE count_leading_zero_nibbles(_, _, _)
count_leading_zero_nibbles(hash, k, count) ==
  IF k > Len(hash) THEN count
  ELSE IF hash[k] = 0 THEN count_leading_zero_nibbles(hash, k + 1, count + 8)
  ELSE IF hash[k] < 16 THEN count + 4
  ELSE count

\* count_leading_zero_bits from byte k on, count being the bits counted
RECURSIVE count_leading_zero_bits_from(_, _, _)
count_leading_zero_bits_from(hash, k, count) ==
  IF k > Len(hash) THEN count
  ELSE IF hash[k] = 0 THEN count_leading_zero_bits_from(hash, k + 1, count + 8)
  ELSE count + byte_leading_zero_bits(hash[k], 7)

\* verify_pow with the digest SHA-256 returns for the preimage
verify_pow_digest(task, nonce, digest) ==
  LET leading == count_leading_zero_bits_from(digest, 1, 0)
  IN leading >= task.bits

\* the client's solver: a test with > where the code has >=
RECURSIVE has_leading_zero_bits_strict(_, _, _)
has_leading_zero_bits_strict(hash, k, remaining) ==
  IF k > Len(hash) THEN remaining = 0
  ELSE IF remaining = 0 THEN TRUE
  ELSE LET lz == byte_leading_zero_bits(hash[k], 7)
       IN IF lz > remaining THEN TRUE
          ELSE IF lz # 8 THEN FALSE
          ELSE has_leading_zero_bits_strict(hash, k + 1, remaining - 8)

\* the client's solver (wasm): the loop of has_leading_zero_bits from byte
\* k on, remaining being the bits still asked for; the function is the
\* loop from byte 1 with remaining = bits
RECURSIVE has_leading_zero_bits(_, _, _)
has_leading_zero_bits(hash, k, remaining) ==
  IF k > Len(hash) THEN remaining = 0
  ELSE IF remaining = 0 THEN TRUE
  ELSE LET lz == byte_leading_zero_bits(hash[k], 7)
       IN IF lz >= remaining THEN TRUE
          ELSE IF lz # 8 THEN FALSE
          ELSE has_leading_zero_bits(hash, k + 1, remaining - 8)

\* digests: a prefix followed by zero bytes up to 32
Digest(prefix) == [k \in 1..32 |-> IF k <= Len(prefix) THEN prefix[k] ELSE 0]

Digests ==
  {Digest(prefix) : prefix \in
     {<<>>, <<128>>, <<255>>, <<16>>, <<15>>, <<8>>, <<7>>, <<1>>, <<0, 128>>, <<0, 16>>,
      <<0, 8>>, <<0, 1>>, <<0, 0, 0, 0, 1>>, <<0, 0, 0, 0, 0, 128>>, <<0, 0, 0, 0, 0, 255>>,
      <<0, 0, 0, 0, 0, 0, 1>>}}
    \cup {[k \in 1..32 |-> IF k = 32 THEN 1 ELSE 0], [k \in 1..32 |-> 255],
          [k \in 1..32 |-> IF k = 1 THEN 8 ELSE 255]}

PowCalls ==
  [pc : {"call"}, fn : {"pow"},
   task : [seed : {"c2VlZA=="}, exp : {TASK_TTL}, scope : {"site", "unknown"},
           bits : {BITS_PER_LEVEL * d : d \in {0, 1, 2, 3, 4, MAX_DIFFICULTY}},
           ua_hash : {compute_ua_hash("Mozilla")}],
   nonce : {"14"},
   digest : Digests]

\* rules.rs to_header_predicate admits a predicate that sets equals, contains
\* or both; the requests carry no User-Agent or one of four values
HeaderCalls ==
  {c \in [pc : {"call"}, fn : {"header"},
          predicate : [name : {"user-agent"}, equals : {None, Some("Bot")},
                       contains : {None, Some("bot")}],
          req : {[PlainRequest EXCEPT !.ua = ua] :
                   ua \in {"", "Mozilla", "GoogleBot", "bot", "BOT"}}] :
     IsSome(c.predicate.equals) \/ IsSome(c.predicate.contains)}

\* the widest task: MAX_DIFFICULTY levels
MAX_BITS == MAX_DIFFICULTY * BITS_PER_LEVEL

SolverCalls == [pc : {"call"}, fn : {"solver"}, digest : Digests, bits : 0..MAX_BITS]

IpPolicies == {"none", "enable", "strict"}

\* a task issued at time 0 to one sender, then POST /verify for it at time
\* t from a sender with any user-agent and address, with a nonce that
\* solves it and with one that does not
Senders == [ua : UserAgents, client : Clients]

OrderCalls ==
  [pc : {"call"}, fn : {"order"}, policy : IpPolicies, issued_to : Senders, who : Senders,
   zeros : ZeroCounts, t : {0, TASK_TTL, TASK_TTL + 1}]

(***************************************************************************)
(* config.rs: Config::load for pow.difficulty.  toml is the value of the   *)
(* key in the file (None when the key or the file is absent), env the      *)
(* value of COWCAT_POW_DIFFICULTY (None when unset); the result is         *)
(* the difficulty of the running configuration, None when load fails.      *)
(***************************************************************************)
DEFAULT_DIFFICULTY == 3

Digits == "0123456789"

\* the digits of s read in base ten onto acc; None for a character that is
\* no digit and for a value beyond i32
RECURSIVE parse_digits(_, _)
parse_digits(s, acc) ==
  IF s = "" THEN Some(acc)
  ELSE LET at == {i \in 1..10 : SubSeq(Digits, i, i) = SubSeq(s, 1, 1)} IN
       IF at = {} THEN None
       ELSE LET d == (CHOOSE i \in at : TRUE) - 1 IN
            IF acc > (I32_MAX - d) \div 10 THEN None
            ELSE parse_digits(SubSeq(s, 2, Len(s)), acc * 10 + d)

\* str::parse::<i32>: an optional sign and at least one digit
parse_i32(s) ==
  LET signed == s # "" /\ SubSeq(s, 1, 1) \in {"+", "-"}
      digits == IF signed THEN SubSeq(s, 2, Len(s)) ELSE s
      n == parse_digits(digits, 0)
  IN IF digits = "" \/ n = None THEN None
     ELSE IF signed /\ SubSeq(s, 1, 1) = "-" THEN Some(0 - n[1])
     ELSE n

\* serde(default) on PowConfig
toml_from_str(toml) == IF toml = None THEN DEFAULT_DIFFICULTY ELSE toml[1]

\* an apply_defaults that leaves a configured 0 alone
apply_defaults_keeps_zero(difficulty) == difficulty

apply_defaults(difficulty) == IF difficulty = 0 THEN DEFAULT_DIFFICULTY ELSE difficulty

\* None is the Err of a value that does not parse
apply_env(difficulty, env) ==
  IF env = None \/ trim(env[1]) = "" THEN Some(difficulty)
  ELSE parse_i32(trim(env[1]))

validate(difficulty) == difficulty >= 0 /\ difficulty <= MAX_DIFFICULTY

Config_load(toml, env) ==
  LET loaded == apply_env(apply_defaults(toml_from_str(toml)), env) IN
  IF loaded = None THEN None
  ELSE IF ~validate(loaded[1]) THEN None
  ELSE loaded

\* the file and the environment, and requests the gate would answer with
\* a block, a challenge or a cookie check
LoadRequests ==
  FirstRequests \cup {[PlainRequest EXCEPT !.path = pa, !.cookie = Some(HomeMade)] :
                        pa \in {"/page", "/admin/x"}}

LoadCalls ==
  [pc : {"call"}, fn : {"load"},
   toml : {None, Some(0), Some(DEFAULT_DIFFICULTY), Some(MAX_DIFFICULTY),
           Some(MAX_DIFFICULTY + 1), Some(-1)},
   env : {None, Some(""), Some("0"), Some(" 0 "), Some("+0"), Some("10"), Some("11"),
          Some("x")},
   req : LoadRequests]

\* requests as the forwarding headers can arrive: absent, empty, one token,
\* several tokens, tokens with white space around them, an empty first token
HeaderClients ==
  [peer : {"10.0.0.1", "10.0.0.2"},
   xff : {<<>>, <<"">>, <<"10.0.0.2", "10.0.0.1">>, <<"10.0.0.3 ", "10.0.0.1">>},
   xri : {<<>>, <<"10.0.0.4">>, <<"10.0.0.4", " 10.0.0.5">>, <<"", "10.0.0.5">>}]

\* one task issued to client, then verified and its cookie presented by
\* client and by other
IpCalls ==
  [pc : {"call"}, fn : {"ip"}, client : HeaderClients, other : HeaderClients,
   policy : IpPolicies]

(***************************************************************************)
(* main.rs: the router behind the gate, and proxy/forward.rs.  The routes  *)
(* are /favicon.ico, the five internal routes nested under POW_PREFIX, and *)
(* proxy_handler as the fallback; the nested router has no fallback of its *)
(* own, so a path no route matches is handed, with its whole path, to      *)
(* proxy_handler.  A route whose method filter rejects the method answers  *)
(* 405.                                                                    *)
(***************************************************************************)
\* routing::get takes GET and HEAD, routing::post takes POST
get(method) == method \in {"GET", "HEAD"}

post(method) == method = "POST"

MethodRouter(accepts, handler) == IF accepts THEN handler ELSE "method_not_allowed"

\* the handler the router runs for a path and a method; {*path} takes a
\* remainder that is not empty
Router_route(path, method) ==
  LET assets == POW_PREFIX \o "/assets/" IN
  IF path = FAVICON_PATH THEN MethodRouter(get(method), "favicon_handler")
  ELSE IF path = POW_PREFIX THEN MethodRouter(get(method), "challenge_page")
  ELSE IF path = POW_PREFIX \o "/ok" THEN MethodRouter(get(method), "health_ok")
  ELSE IF StartsWith(path, assets) /\ Len(path) > Len(assets)
    THEN MethodRouter(get(method), "serve_asset")
  ELSE IF path = POW_PREFIX \o "/task" THEN MethodRouter(post(method), "pow_task")
  ELSE IF path = POW_PREFIX \o "/verify" THEN MethodRouter(post(method), "pow_verify")
  ELSE "proxy_handler"

\* a proxy_handler that sends every path on
proxy_handler_unguarded(req, upstream) ==
  IF IsSome(upstream) THEN [status |-> upstream[1], sent |-> Some(req.path)]
  ELSE [status |-> 502, sent |-> Some(req.path)]

\* sent is the path of the request handed to proxy_client (build_target_uri
\* keeps the path of the original); upstream is the status of the response,
\* None when the request fails
proxy_handler(req, upstream) ==
  IF StartsWith(req.path, POW_PREFIX) THEN [status |-> 404, sent |-> None]
  ELSE IF IsSome(upstream) THEN [status |-> upstream[1], sent |-> Some(req.path)]
  ELSE [status |-> 502, sent |-> Some(req.path)]

\* the gate as a layer around the router: what the gate decides, the
\* handler that runs, and the request that goes to the upstream.  The
\* favicon handler asks the upstream for FAVICON_PATH when its cache holds
\* no valid entry; the internal handlers never use proxy_client.
serve(config, req, t, upstream) ==
  LET d == pow_gate(config, req, t)
      handler == Router_route(req.path, req.method)
  IN IF d.kind # "forward"
       THEN [gate |-> d.kind, handler |-> "pow_gate", status |-> 403, sent |-> None]
     ELSE IF handler = "proxy_handler"
       THEN [gate |-> d.kind, handler |-> handler] @@ proxy_handler(req, upstream)
     ELSE IF handler = "method_not_allowed"
       THEN [gate |-> d.kind, handler |-> handler, status |-> 405, sent |-> None]
     ELSE [gate |-> d.kind, handler |-> handler, status |-> 0,
           sent |-> IF handler = "favicon_handler" THEN Some(FAVICON_PATH) ELSE None]

\* the gate switched off and on, every internal route, internal paths that
\* match no route, and paths outside the prefix
RouteConfigs == {[c EXCEPT !.difficulty = d] : c \in GateConfigs, d \in {0, 1}}

RoutePaths ==
  {POW_PREFIX, POW_PREFIX \o "/", POW_PREFIX \o "/ok", POW_PREFIX \o "/assets/app.js",
   POW_PREFIX \o "/assets/", POW_PREFIX \o "/task", POW_PREFIX \o "/verify",
   POW_PREFIX \o "/unknown", POW_PREFIX \o "x", POW_PREFIX \o "/../page",
   "/__cowcatwa", "/page", "/open", FAVICON_PATH}

RouteCalls ==
  [pc : {"call"}, fn : {"route"}, config : RouteConfigs,
   req : {[PlainRequest EXCEPT !.path = pa, !.method = m, !.cookie = co] :
            pa \in RoutePaths, m \in {"GET", "HEAD", "POST"}, co \in {None, Some(HomeMade)}},
   upstream : {None, Some(200), Some(404)}]

Calls ==
  RuleCalls \cup {c \in CookieCalls : c.verified >= c.issued}
    \cup {c \in TamperCalls : c.raw # c.token \/ c.flip = 0}
    \cup ResponseCalls
    \cup MaskCalls
    \cup EmitCalls
    \cup VerifyBodyCalls
    \cup IpCalls
    \cup LoadCalls
    \cup OrderCalls
    \cup PowCalls
    \cup SolverCalls
    \cup HeaderCalls
    \cup RouteCalls

InitCalls ==
  /\ cfg \in {c \in Configs : c.ip_policy = "none"}
  /\ cap = 0
  /\ now = 0
  /\ store = EmptyStore
  /\ shadow = EmptyStore
  /\ nextId = 1
  /\ wake = TASK_CLEANUP_INTERVAL
  /\ cookies = {}
  /\ wins = [k \in 1..MaxTasks |-> 0]
  /\ lock = None
  /\ favicon_cache = RwLock_new(None)
  /\ \E call \in Calls : thr = [p \in AllThreads |-> IF p = 1 THEN call ELSE Idle]
  /\ last = [op |-> "init"]

\* the call of thread p returns
Returns(p, result) ==
  /\ thr' = [thr EXCEPT ![p] = [@ EXCEPT !.pc = "returned"] @@ [result |-> result]]
  /\ UNCHANGED <<favicon_cache, cfg, cap, now, store, shadow, nextId, wake, cookies, wins, lock, last>>

Evaluate(p) ==
  /\ thr[p].pc = "call" /\ thr[p].fn = "evaluate"
  /\ Returns(p, RulesEngine_evaluate(thr[p].engine, thr[p].req, thr[p].client_ip))

\* generate_cookie at the time issued, verify_cookie of its value at the
\* time verified
CookieRoundTrip(p) ==
  /\ thr[p].pc = "call" /\ thr[p].fn = "cookie"
  /\ LET c == thr[p]
         token == wire_generate_cookie(c.secret, c.bits, c.scope, c.ua_hash, c.ip_hash,
                                       c.nonce, c.duration_seconds, c.issued)
     IN Returns(p, [token |-> token,
                    payload |-> wire_verify_cookie(c.secret, token, c.verified)])

\* verify_cookie of a value the client sends, at the time of issue
VerifyTampered(p) ==
  /\ thr[p].pc = "call" /\ thr[p].fn = "tamper"
  /\ Returns(p, wire_verify_cookie(ServerSecret, thr[p].raw, 0))

\* the server frames a task response, the client decodes the frame
TaskResponseRoundTrip(p) ==
  /\ thr[p].pc = "call" /\ thr[p].fn = "task_response"
  /\ LET frame == encode_frame(FRAME_TYPE_TASK_RESPONSE, encode_task_response(thr[p].resp))
     IN Returns(p, [frame |-> frame, decoded |-> decode_task_response_json(frame)])

\* the mask applied once and twice by the server, and by one side after
\* the other
MaskTwice(p) ==
  /\ thr[p].pc = "call" /\ thr[p].fn = "mask"
  /\ LET once == deobfuscate_frame(thr[p].data, XOR_KEY)
     IN Returns(p, [once |-> once,
                    twice |-> deobfuscate_frame(once, XOR_KEY),
                    client |-> obfuscate_frame(once),
                    server |-> deobfuscate_frame(obfuscate_frame(thr[p].data), XOR_KEY)])

\* the server emits a frame: the reply of POST /task, the frame in the
\* challenge page, the reply of POST /verify, an error reply
EmitFrame(p) ==
  /\ thr[p].pc = "call" /\ thr[p].fn = "emit"
  /\ LET c == thr[p]
     IN Returns(p, CASE c.kind = "task" -> pow_task_reply(c.task, c.workers, c.worker_type)
                     [] c.kind = "page" -> challenge_task_frame(c.task, c.workers, c.worker_type)
                     [] c.kind = "verify" -> pow_verify_reply(c.redirect)
                     [] c.kind = "error" -> error_frame(c.message))

\* POST /verify reads its body
ReceiveVerifyRequest(p) ==
  /\ thr[p].pc = "call" /\ thr[p].fn = "verify_body"
  /\ Returns(p, pow_verify_request(thr[p].body))

\* what the handlers and the gate make of a client's addresses: the
\* address the rules see, the binding address and its hash, the answer of
\* POST /verify for a task issued to issued_to, and the answer of the
\* cookie check for the cookie that task earned
IpOutcome(config, issued_to, who) ==
  LET req(c, body) == [ua |-> "Mozilla", host |-> "site", client |-> c, body |-> body]
      task == build_task(config, req(issued_to, [kind |-> "task"]), config.difficulty, 1, 0)
      map == TaskStore_insert(EmptyStore, task)
      solve == [kind |-> "verify", task_id |-> 1, nonce |-> [seed |-> 1, zeros |-> task.bits]]
      cookie == pow_verify(config, map, req(issued_to, solve), 0).cookie
  IN [rule_ip |-> resolve_request_ip(who),
      rule_addr |-> parse_ip(resolve_request_ip(who)),
      binding_ip |-> extract_client_ip(who, config.ip_policy),
      ip_hash |-> build_task(config, req(who, [kind |-> "task"]), config.difficulty, 1, 0).ip_hash,
      verify |-> pow_verify(config, map, req(who, solve), 0).msg,
      cookie_ok |-> verify_cookie(config, req(who, [kind |-> "get"]), cookie[1], 0)]

ResolveIps(p) ==
  /\ thr[p].pc = "call" /\ thr[p].fn = "ip"
  /\ LET config == [cfg EXCEPT !.ip_policy = thr[p].policy]
     IN Returns(p, [client |-> IpOutcome(config, thr[p].client, thr[p].client),
                    other |-> IpOutcome(config, thr[p].client, thr[p].other)])

\* the server starts on the loaded configuration and the gate handles one
\* request
LoadAndGate(p) ==
  /\ thr[p].pc = "call" /\ thr[p].fn = "load"
  /\ LET loaded == Config_load(thr[p].toml, thr[p].env)
         config == [difficulty |-> loaded[1], cookie_expire_hours |-> 1, ip_policy |-> "none",
                    test_mode |-> FALSE, rules |-> SomeRules, overflow_checks |-> FALSE]
     IN Returns(p, IF loaded = None THEN [config |-> None, gate |-> None]
                   ELSE [config |-> loaded, gate |-> Some(pow_gate(config, thr[p].req, 0))])

\* verify_pow for a task and a nonce whose preimage has the digest drawn
VerifyPow(p) ==
  /\ thr[p].pc = "call" /\ thr[p].fn = "pow"
  /\ Returns(p, [preimage |-> pow_preimage(thr[p].task, thr[p].nonce),
                 leading |-> count_leading_zero_bits_from(thr[p].digest, 1, 0),
                 accepted |-> verify_pow_digest(thr[p].task, thr[p].nonce, thr[p].digest)])

\* the solver's test and the verifier's count of one digest
SolveAndCount(p) ==
  /\ thr[p].pc = "call" /\ thr[p].fn = "solver"
  /\ Returns(p, [client |-> thr[p].bits = 0
                              \/ has_leading_zero_bits(thr[p].digest, 1, thr[p].bits),
                 server |-> count_leading_zero_bits_from(thr[p].digest, 1, 0)])

\* a header predicate applied to a request's headers
MatchHeader(p) ==
  /\ thr[p].pc = "call" /\ thr[p].fn = "header"
  /\ Returns(p, HeaderPredicate_is_match(thr[p].predicate, thr[p].req))

\* one request through the gate, the router and the handler
RouteRequest(p) ==
  /\ thr[p].pc = "call" /\ thr[p].fn = "route"
  /\ Returns(p, serve(thr[p].config, thr[p].req, now, thr[p].upstream))

\* POST /task at time 0, then POST /verify at time t
VerifyIssued(p) ==
  /\ thr[p].pc = "call" /\ thr[p].fn = "order"
  /\ LET c == thr[p]
         config == [cfg EXCEPT !.ip_policy = c.policy]
         req(sender, body) == [ua |-> sender.ua, host |-> "site", client |-> sender.client,
                               body |-> body]
         task == build_task(config, req(c.issued_to, [kind |-> "task"]), config.difficulty, 1, 0)
         solve == [kind |-> "verify", task_id |-> 1, nonce |-> [seed |-> 1, zeros |-> c.zeros]]
         r == pow_verify(config, TaskStore_insert(EmptyStore, task), req(c.who, solve), c.t)
     IN Returns(p, [task |-> task, status |-> r.status, kind |-> r.kind, msg |-> r.msg,
                    left |-> DOMAIN r.map])

NextCalls ==
  \/ \E p \in Threads : ResolveIps(p)
  \/ \E p \in Threads : VerifyIssued(p)
  \/ \E p \in Threads : VerifyPow(p)
  \/ \E p \in Threads : SolveAndCount(p)
  \/ \E p \in Threads : MatchHeader(p)
  \/ \E p \in Threads : RouteRequest(p)
  \/ \E p \in Threads : LoadAndGate(p)
  \/ \E p \in Threads : Evaluate(p)
  \/ \E p \in Threads : CookieRoundTrip(p)
  \/ \E p \in Threads : VerifyTampered(p)
  \/ \E p \in Threads : TaskResponseRoundTrip(p)
  \/ \E p \in Threads : MaskTwice(p)
  \/ \E p \in Threads : EmitFrame(p)
  \/ \E p \in Threads : ReceiveVerifyRequest(p)

SpecCalls == InitCalls /\ [][NextCalls]_vars

(***************************************************************************)
(* SpecWire: POST /task and POST /verify with their bodies and replies as  *)
(* bytes.  The store holds the tasks of Spec; the k-th random id and seed  *)
(* are written as the strings the generators return, and a nonce string    *)
(* stands for the number of leading zero bits its digest has.              *)
(***************************************************************************)
\* hex::encode of 16 random bytes, the k-th draw
generate_random_id(k) == [i \in 1..32 |-> IF i = 32 THEN 48 + k ELSE 48]

\* URL_SAFE base64 of 32 random bytes, the k-th draw
generate_random_seed(k) ==
  [i \in 1..44 |-> IF i = 43 THEN 48 + k ELSE IF i = 44 THEN 61 ELSE 65]

\* the key of the store a task_id string names, -1 for a string that no
\* draw returned
StoreKey(task_id) ==
  IF \E k \in 1..MaxTasks : generate_random_id(k) = task_id
    THEN CHOOSE k \in 1..MaxTasks : generate_random_id(k) = task_id
    ELSE -1

\* the digest of a nonce string: "kz" has z leading zero bits on the seed
\* of draw k, any other string has none on any seed
NonceOf(nonce) ==
  IF nonce = <<>> THEN EmptyNonce
  ELSE IF Len(nonce) = 2 /\ nonce[1] - 48 \in 1..MaxTasks /\ nonce[2] - 48 \in ZeroCounts
    THEN [seed |-> nonce[1] - 48, zeros |-> nonce[2] - 48, text |-> nonce]
  ELSE [seed |-> 0, zeros |-> 0, text |-> nonce]

\* the strings of a Task
TaskStrings(task) ==
  [task_id |-> generate_random_id(task.task_id), seed |-> generate_random_seed(task.seed),
   bits |-> task.bits, exp |-> task.exp, scope |-> as_bytes(task.scope),
   ua_hash |-> as_bytes(task.ua_hash), ip_hash |-> as_bytes(task.ip_hash)]

\* TaskId::short_id: Option of the prefix, None where it panics (the
\* debug_assert in a build with debug assertions, the slice at an index
\* that is no character boundary in any build)
short_id(task_id, debug_assertions) ==
  LET end == IF Len(task_id) < 6 THEN Len(task_id) ELSE 6 IN
  IF debug_assertions /\ ~(task_id = <<>> \/ is_ascii(task_id)) THEN None
  ELSE IF ~is_char_boundary(task_id, end) THEN None
  ELSE Some(SubSeq(task_id, 1, end))

\* the reply of a handler: status 0 and no frame where the handler panics;
\* named is the key of the store the request named, 0 when it named none
Reply(map, status, kind, msg, frame) ==
  [map |-> map, status |-> status, kind |-> kind, msg |-> msg, frame |-> frame,
   task |-> None, cookie |-> None, set_cookie |-> None, redirect |-> <<>>, named |-> 0]

\* POST /task: id is the next draw of the generators, rng_ok whether they
\* succeed
pow_task(config, map, req, id, t, rng_ok) ==
  LET bad == Reply(map, 400, "BadFrame", MSG_INVALID_REQUEST,
                   error_frame(as_bytes(MSG_INVALID_REQUEST)))
      frame == decode_frame(req.body)
  IN IF req.body # <<>> /\ frame = None THEN bad
     ELSE IF req.body # <<>> /\ frame[1].frame_type # FRAME_TYPE_TASK_REQUEST THEN bad
     ELSE IF req.body # <<>> /\ decode_task_request(frame[1].payload) = None THEN bad
     ELSE IF ~rng_ok
       THEN Reply(map, 500, "NoTask", MSG_FAILED_TO_GENERATE_TASK,
                  error_frame(as_bytes(MSG_FAILED_TO_GENERATE_TASK)))
     ELSE LET task == build_task(config, req, config.difficulty, id, t)
          IN [Reply(TaskStore_insert(map, task), 200, "Ok", "",
                    pow_task_reply(TaskStrings(task), config.workers,
                                   as_bytes(config.worker_type)))
                EXCEPT !.task = Some(task)]

\* POST /verify from the point where the body has been read: verify_req is
\* what pow_verify_request makes of the body
pow_verify_decoded(config, map, req, verify_req, t) ==
  IF verify_req = None
    THEN Reply(map, 400, "BadFrame", MSG_INVALID_REQUEST,
               error_frame(as_bytes(MSG_INVALID_REQUEST)))
  ELSE
    LET body == [kind |-> "verify", task_id |-> StoreKey(verify_req[1].task_id),
                 nonce |-> NonceOf(verify_req[1].nonce)]
        r == pow_verify(config, map,
                        [ua |-> req.ua, host |-> req.host, client |-> req.client,
                         body |-> body], t)
        logged == config.warn_enabled /\ r.kind \in {"NotFound", "Expired"}
    IN IF logged /\ short_id(verify_req[1].task_id, config.debug_assertions) = None
         THEN [Reply(r.map, 0, "Panic", "", <<>>) EXCEPT !.named = body.task_id]
       ELSE IF r.status # 200
         THEN [Reply(r.map, r.status, r.kind, r.msg, error_frame(as_bytes(r.msg)))
                 EXCEPT !.named = body.task_id]
       ELSE
         LET expire_seconds == config.cookie_expire_hours * SECONDS_PER_HOUR
             redirect == IF config.test_mode THEN as_bytes(POW_PREFIX \o "/ok")
                         ELSE IF verify_req[1].redirect = <<>> THEN as_bytes("/")
                         ELSE verify_req[1].redirect
         IN [Reply(r.map, 200, "Ok", "", pow_verify_reply(redirect))
               EXCEPT !.task = Some(map[body.task_id]),
                      !.cookie = r.cookie,
                      !.redirect = redirect,
                      !.named = body.task_id,
                      !.set_cookie = Some([name |-> POW_COOKIE_NAME, value |-> r.cookie[1],
                                           path |-> "/", http_only |-> TRUE,
                                           secure |-> config.secure,
                                           max_age |-> expire_seconds])]

\* POST /verify
pow_verify_bytes(config, map, req, t) ==
  pow_verify_decoded(config, map, req, pow_verify_request(req.body), t)

\* the two builds and the two settings of the log filter that decide
\* whether short_id is evaluated and whether it asserts
WireConfigs ==
  {c \in [difficulty : {1}, cookie_expire_hours : {1, 24}, ip_policy : {"none", "strict"},
          test_mode : BOOLEAN, rules : {NoRules}, overflow_checks : {FALSE},
          workers : {4}, worker_type : {"wasm"}, secure : {FALSE},
          warn_enabled : BOOLEAN, debug_assertions : BOOLEAN] :
     /\ c.test_mode => (c.ip_policy = "none" /\ c.warn_enabled /\ ~c.debug_assertions)
     /\ c.cookie_expire_hours = (IF c.test_mode THEN 24 ELSE 1)}

\* a frame with any header
RawFrame(magic0, magic1, version, frame_type, len, payload) ==
  <<magic0, magic1, version, frame_type>> \o u32_be(len) \o payload

\* bodies POST /task rejects: too short, bad magic, bad version, length
\* mismatch, malformed TLV, another frame type, a masked task request
BadTaskBodies ==
  LET payload == append_tlv(<<>>, TLV_REDIRECT, <<47>>) IN
  {<<FRAME_MAGIC0>>,
   RawFrame(FRAME_MAGIC0, 88, FRAME_VERSION, FRAME_TYPE_TASK_REQUEST, Len(payload), payload),
   RawFrame(FRAME_MAGIC0, FRAME_MAGIC1, 2, FRAME_TYPE_TASK_REQUEST, Len(payload), payload),
   RawFrame(FRAME_MAGIC0, FRAME_MAGIC1, FRAME_VERSION, FRAME_TYPE_TASK_REQUEST,
            Len(payload) + 1, payload),
   encode_frame(FRAME_TYPE_TASK_REQUEST, <<TLV_REDIRECT, 0>>),
   encode_frame(FRAME_TYPE_TASK_REQUEST, <<TLV_REDIRECT, 0, 2, 47>>),
   encode_frame(FRAME_TYPE_VERIFY_REQUEST, payload),
   obfuscate_frame(encode_frame(FRAME_TYPE_TASK_REQUEST, payload))}

\* bodies POST /task accepts: no body, and the frame the client sends
GoodTaskBodies ==
  {<<>>, encode_frame(FRAME_TYPE_TASK_REQUEST, append_tlv(<<>>, TLV_REDIRECT, <<47>>)),
   encode_frame(FRAME_TYPE_TASK_REQUEST, <<>>)}

\* bodies POST /verify rejects, each masked as the client masks: no body,
\* too short, bad magic, bad version, length mismatch, malformed TLV,
\* another frame type, no task_id, no nonce, an empty nonce; and a verify
\* request left plain
BadVerifyFrames ==
  LET id == generate_random_id(1)
      payload == append_tlv(append_tlv(<<>>, TLV_TASK_ID, id), TLV_NONCE, <<49, 52>>)
  IN {<<>>, encode_frame(FRAME_TYPE_VERIFY_REQUEST, payload)}
       \cup {obfuscate_frame(b) : b \in
              {<<FRAME_MAGIC0, FRAME_MAGIC1, FRAME_VERSION>>,
               RawFrame(FRAME_MAGIC0, 88, FRAME_VERSION, FRAME_TYPE_VERIFY_REQUEST,
                        Len(payload), payload),
               RawFrame(FRAME_MAGIC0, FRAME_MAGIC1, 2, FRAME_TYPE_VERIFY_REQUEST,
                        Len(payload), payload),
               RawFrame(FRAME_MAGIC0, FRAME_MAGIC1, FRAME_VERSION, FRAME_TYPE_VERIFY_REQUEST,
                        Len(payload) - 1, payload),
               encode_frame(FRAME_TYPE_VERIFY_REQUEST, payload \o <<TLV_REDIRECT, 0>>),
               encode_frame(FRAME_TYPE_VERIFY_REQUEST, payload \o <<TLV_REDIRECT, 0, 9, 47>>),
               encode_frame(FRAME_TYPE_TASK_REQUEST, payload),
               encode_frame(FRAME_TYPE_VERIFY_RESPONSE, payload),
               encode_frame(FRAME_TYPE_VERIFY_REQUEST, append_tlv(<<>>, TLV_NONCE, <<49, 52>>)),
               encode_frame(FRAME_TYPE_VERIFY_REQUEST, append_tlv(<<>>, TLV_TASK_ID, id)),
               encode_frame(FRAME_TYPE_VERIFY_REQUEST,
                            append_tlv(append_tlv(<<>>, TLV_TASK_ID, id), TLV_NONCE, <<>>))}}

\* task ids a client can name: the one of the first draw, one no draw of
\* the run returns, "zz", and ids that are not ASCII: a lone byte 0xFF,
\* "aaaaa" and "aaaaaa" followed by the two bytes of U+00E9
TaskIdBytes ==
  {generate_random_id(1), generate_random_id(2), <<122, 122>>, <<255>>,
   <<97, 97, 97, 97, 97, 195, 169>>, <<97, 97, 97, 97, 97, 97, 195, 169>>}

\* nonces: one that solves the first task at 4 bits, one that does not, and
\* one that is not UTF-8
NonceBytes == {<<49, 52>>, <<49, 48>>, <<49, 52, 255>>}

\* every task id with the solving nonce, and the first task's id with every
\* nonce and redirect
GoodVerifyFrames ==
  {encode_verify_request(id, <<49, 52>>, <<47>>) : id \in TaskIdBytes}
    \cup {encode_verify_request(generate_random_id(1), nonce, redirect) :
            nonce \in NonceBytes, redirect \in Redirects}

WireTaskRequests ==
  [ua : {"Mozilla"}, host : {"site"}, client : {Nobody.client},
   body : GoodTaskBodies \cup BadTaskBodies]

WireVerifyRequests ==
  [ua : UserAgents, host : {"site"}, client : {Nobody.client}, body : GoodVerifyFrames]
    \cup [ua : {"Mozilla"}, host : {"site"}, client : {Nobody.client}, body : BadVerifyFrames]

\* a task issued at 0 is live at TASK_TTL and expired one second later
WireInstants == {0, TASK_TTL, TASK_TTL + 1}

InitWire ==
  /\ cfg \in WireConfigs
  /\ cap = MaxWireTasks
  /\ now = 0
  /\ store = EmptyStore
  /\ shadow = EmptyStore
  /\ nextId = 1
  /\ wake = TASK_CLEANUP_INTERVAL
  /\ cookies = {}
  /\ wins = [k \in 1..MaxTasks |-> 0]
  /\ lock = None
  /\ favicon_cache = RwLock_new(None)
  /\ thr = [p \in AllThreads |-> Idle]
  /\ last = [op |-> "init"]

WireTaskRequest(req, rng_ok) ==
  /\ nextId <= cap
  /\ \E r \in {pow_task(cfg, store, req, nextId, now, rng_ok)} :
       /\ store' = r.map
       /\ shadow' = IF IsSome(r.task) THEN TaskStore_insert(shadow, r.task[1]) ELSE shadow
       /\ nextId' = IF IsSome(r.task) THEN nextId + 1 ELSE nextId
       /\ last' = [op |-> "task", body |-> req.body, before |-> store, status |-> r.status,
                   kind |-> r.kind, msg |-> r.msg, frame |-> r.frame, task |-> r.task,
                   set_cookie |-> r.set_cookie, redirect |-> r.redirect,
                   named |-> r.named]
  /\ UNCHANGED <<favicon_cache, cfg, cap, now, wake, cookies, wins, lock, thr>>

WireVerifyRequest(req) ==
  \E r \in {pow_verify_bytes(cfg, store, req, now)} :
     /\ store' = r.map
     /\ shadow' = IF r.named \in DOMAIN shadow THEN HashMap_remove(shadow, r.named)
                  ELSE shadow
     /\ cookies' = IF IsSome(r.cookie) THEN cookies \cup {r.cookie[1]} ELSE cookies
     /\ wins' = IF r.status = 200 THEN [wins EXCEPT ![r.task[1].task_id] = @ + 1] ELSE wins
     /\ last' = [op |-> "verify", body |-> req.body, before |-> store, status |-> r.status,
                 kind |-> r.kind, msg |-> r.msg, frame |-> r.frame, task |-> r.task,
                 set_cookie |-> r.set_cookie, redirect |-> r.redirect,
                 named |-> r.named]
     /\ UNCHANGED <<favicon_cache, cfg, cap, now, nextId, wake, lock, thr>>

NextWire ==
  \/ \E req \in WireTaskRequests, rng_ok \in BOOLEAN : WireTaskRequest(req, rng_ok)
  \/ \E req \in WireVerifyRequests : WireVerifyRequest(req)
  \/ \E t \in WireInstants : Tick(t)

SpecWire == InitWire /\ [][NextWire]_vars

(***************************************************************************)
(* SpecIssue: the two places that build a task, POST /task at the          *)
(* configured difficulty and the challenge page at the effective           *)
(* difficulty of the gate, under every base difficulty, with the frame     *)
(* each sends.                                                             *)
(***************************************************************************)
\* deltas that leave the sum in range, take it below 0 and above 10, and
\* wrap it
IssueDeltas == {0 - (MAX_DIFFICULTY + 1), -1, 0, 1, MAX_DIFFICULTY + 1, I32_MAX}

IssueConfigs ==
  [difficulty : 0..MAX_DIFFICULTY, cookie_expire_hours : {1}, ip_policy : {"none"},
   test_mode : {FALSE},
   rules : {NoRules} \cup {ChallengeRules(delta) : delta \in IssueDeltas},
   overflow_checks : {FALSE}, workers : {4}, worker_type : {"wasm"}, secure : {FALSE},
   warn_enabled : {TRUE}, debug_assertions : {FALSE}]

IssueTaskRequests == {r \in WireTaskRequests : r.body \in GoodTaskBodies}

InitIssue ==
  /\ cfg \in IssueConfigs
  /\ cap = MaxIssueTasks
  /\ now = 0
  /\ store = EmptyStore
  /\ shadow = EmptyStore
  /\ nextId = 1
  /\ wake = TASK_CLEANUP_INTERVAL
  /\ cookies = {}
  /\ wins = [k \in 1..MaxTasks |-> 0]
  /\ lock = None
  /\ favicon_cache = RwLock_new(None)
  /\ thr = [p \in AllThreads |-> Idle]
  /\ last = [op |-> "init"]

\* a request through the gate with the page's task frame: a challenge
\* builds a task at the gate's difficulty, encodes its frame and inserts it
WireGateRequest(req, rng_ok) ==
  /\ nextId <= cap
  /\ \E d \in {pow_gate(cfg, req, now)} :
       LET rec == [op |-> "gate", kind |-> d.kind, difficulty |-> d.difficulty] IN
       IF d.kind = "challenge" /\ rng_ok
         THEN LET task == build_task(cfg, req, d.difficulty, nextId, now) IN
              /\ store' = TaskStore_insert(store, task)
              /\ shadow' = TaskStore_insert(shadow, task)
              /\ nextId' = nextId + 1
              /\ last' = rec @@ [status |-> 403, task |-> Some(task),
                                 frame |-> challenge_task_frame(TaskStrings(task), cfg.workers,
                                                                as_bytes(cfg.worker_type))]
         ELSE /\ last' = rec @@ [status |-> IF d.kind = "challenge" THEN 500
                                            ELSE IF d.kind = "block" THEN 403 ELSE 0,
                                 task |-> None, frame |-> <<>>]
              /\ UNCHANGED <<store, shadow, nextId>>
  /\ UNCHANGED <<favicon_cache, cfg, cap, now, wake, cookies, wins, lock, thr>>

NextIssue ==
  \/ \E req \in IssueTaskRequests, rng_ok \in BOOLEAN : WireTaskRequest(req, rng_ok)
  \/ \E rng_ok \in BOOLEAN : WireGateRequest(PlainRequest, rng_ok)
  \/ \E t \in WireInstants : Tick(t)

SpecIssue == InitIssue /\ [][NextIssue]_vars

(***************************************************************************)
(* Notions the properties share.                                           *)
(***************************************************************************)
WellFormed == {req \in VerifyRequests : VerifyBodyOk(req.body)}

\* ids whose task a consume_if has removed: generated, and gone from the
\* store that is never swept
Consumed == {id \in 1..(nextId - 1) : id \notin DOMAIN shadow}

(***************************************************************************)
(* Properties of the store's mutex (SpecLock).                             *)
(***************************************************************************)
\* the steps of consume_if and of cleanup taken with the guard held
Holding(p) ==
  IF p = Sweeper THEN thr[p].pc = "retain"
  ELSE thr[p].pc \in {"find", "erase", "expiry", "validate", "return"}

\* thread p has taken the task out of the map
Obtained(p) ==
  /\ thr[p].pc \in {"expiry", "validate", "return", "respond", "done"}
  /\ IsSome(thr[p].task)

Takers(id) == {p \in Threads : Obtained(p) /\ thr[p].req.body.task_id = id}

\* C3: the store's operations are atomic with respect to each other: a
\* thread runs consume_if's find, erase, expiry check and validator holding
\* the one guard, no other thread holding it meanwhile; of the verify
\* requests for one task_id exactly one obtains the task, and every other
\* one is answered NotFound.
C3_Atomic ==
  /\ \A p \in AllThreads : Holding(p) => lock = Some(p)
  /\ \A p, q \in AllThreads : (Holding(p) /\ Holding(q)) => p = q
  /\ \A id \in 1..MaxTasks :
       Cardinality(Takers(id)) = IF id \in Consumed THEN 1 ELSE 0
  /\ \A p, q \in Threads :
       (p # q /\ Obtained(p) /\ thr[q].pc \in {"return", "respond", "done"}
          /\ thr[q].req.body.task_id = thr[p].req.body.task_id)
         => thr[q].kind = "NotFound" /\ thr[q].task = None

\* two verify requests for one task, both begun while the task was in the
\* store: one passed validation, the other was answered NotFound
C3_Witness ==
  \E p, q \in Threads :
    /\ p # q
    /\ thr[p].pc = "done" /\ thr[q].pc = "done"
    /\ thr[p].req.body.task_id = thr[q].req.body.task_id
    /\ thr[p].live /\ thr[q].live
    /\ thr[p].kind = "Ok"
    /\ thr[q].kind = "NotFound"

(***************************************************************************)
(* Properties of the task store and the verify endpoint (Spec).            *)
(***************************************************************************)

\* C1: replay resistance: of all the verify requests that carry one task_id,
\* at most one succeeds, so no task yields more than one admission cookie.
C1_ReplayResistance ==
  /\ \A id \in DOMAIN wins : wins[id] <= 1
  /\ Cardinality(cookies) <= nextId - 1

\* a verify succeeded for a task, and the next verify for it was turned away
C1_Witness ==
  /\ last.op = "verify"
  /\ last.kind = "NotFound"
  /\ last.task_id \in DOMAIN wins
  /\ wins[last.task_id] = 1

\* C2: consume on failure: a consume_if that finds the task leaves the store
\* without it whatever the outcome, and every later verify for that task_id
\* is answered NotFound, also with the right user-agent, IP and nonce.
C2_ConsumeOnFailure ==
  /\ (last.op = "verify" /\ last.kind # "BadFrame" /\ last.found)
       => last.task_id \notin DOMAIN store
  /\ \A id \in Consumed : id \notin DOMAIN store
  /\ \A req \in WellFormed :
       req.body.task_id \in Consumed =>
         pow_verify(cfg, store, req, now).kind = "NotFound"

\* at instant 0, when no task has expired and the sweeper sleeps, a verify
\* failed validation, consuming its task, and the next verify for the task
\* was answered NotFound
C2_Witness ==
  /\ last.op = "verify"
  /\ last.kind = "NotFound"
  /\ last.task_id \in Consumed
  /\ wins[last.task_id] = 0
  /\ now = 0

\* C4 as stated: a verify for an issued, unconsumed task whose exp has
\* passed is answered Expired.
C4_ExpiredAsStated ==
  \A req \in WellFormed :
    LET id == req.body.task_id IN
    (id \in DOMAIN shadow /\ shadow[id].exp < now) =>
      pow_verify(cfg, store, req, now).kind = "Expired"

\* C4 amended: such a verify never succeeds: it is answered Expired while
\* the task is in the store, and NotFound once the sweeper has removed it;
\* either way with status 400 and without a cookie.
C4_Expiry ==
  \A req \in WellFormed :
    LET id == req.body.task_id
        r == pow_verify(cfg, store, req, now)
    IN (id \in DOMAIN shadow /\ shadow[id].exp < now) =>
         /\ r.kind = IF id \in DOMAIN store THEN "Expired" ELSE "NotFound"
         /\ r.status = 400
         /\ r.cookie = None
         /\ r.msg = IF id \in DOMAIN store THEN MSG_TASK_EXPIRED
                                           ELSE MSG_TASK_NOT_FOUND_OR_EXPIRED

\* a verify for a task still in the store was answered "task expired"
C4_Witness ==
  /\ last.op = "verify"
  /\ last.found
  /\ last.kind = "Expired"
  /\ last.msg = MSG_TASK_EXPIRED

\* C5: the sweep is a soft GC: a task the sweeper has removed has exp < now,
\* and the verify requests that succeed are those that succeed against the
\* store that is never swept.
C5_SoftGC ==
  /\ \A id \in DOMAIN shadow : id \notin DOMAIN store => shadow[id].exp < now
  /\ \A id \in DOMAIN store : id \in DOMAIN shadow /\ shadow[id] = store[id]
  /\ \A req \in WellFormed :
       (pow_verify(cfg, store, req, now).kind = "Ok")
         <=> (pow_verify(cfg, shadow, req, now).kind = "Ok")

\* the sweeper has run at an instant some task's exp equals, and has removed
\* another task
C5_Witness ==
  /\ last.op = "sweep"
  /\ \E id \in DOMAIN store : store[id].exp = now
  /\ \E id \in DOMAIN shadow : id \notin DOMAIN store

\* C6: binding: a verify whose user-agent hash differs from the task's
\* fails; under an IP policy other than none so does one whose binding-IP
\* hash differs; under policy none the sender's address changes nothing.
C6_Binding ==
  \A req \in WellFormed :
    LET id == req.body.task_id
        r == pow_verify(cfg, store, req, now)
    IN id \in DOMAIN store =>
         /\ store[id].ua_hash # compute_ua_hash(req.ua) => r.status = 400 /\ r.cookie = None
         /\ (cfg.ip_policy # "none"
               /\ store[id].ip_hash # compute_ip_hash(extract_client_ip(req.client, cfg.ip_policy)))
              => r.status = 400 /\ r.cookie = None
         /\ cfg.ip_policy = "none" =>
              \A cl \in Clients :
                LET r2 == pow_verify(cfg, store, [req EXCEPT !.client = cl], now)
                IN r2.status = r.status /\ r2.msg = r.msg

\* a verify with the right user-agent and a wrong address was refused
C6_Witness ==
  /\ last.op = "verify"
  /\ last.found
  /\ last.msg = MSG_IP_ADDRESS_MISMATCH

(***************************************************************************)
(* Properties of the gate (SpecGate).                                      *)
(***************************************************************************)
\* a service-worker script load: GET or HEAD, sec-fetch-dest: serviceworker
\* or service-worker: script, and a path that ends in .js or .mjs
ServiceWorkerScript(req) ==
  /\ req.method \in {"GET", "HEAD"}
  /\ \/ to_ascii_lowercase(req.sec_fetch_dest) = "serviceworker"
     \/ to_ascii_lowercase(req.service_worker) = "script"
  /\ \/ EndsWith(to_ascii_lowercase(req.path), ".js")
     \/ EndsWith(to_ascii_lowercase(req.path), ".mjs")

\* the requests the bypass rules name
Bypass(req) ==
  \/ StartsWith(req.path, "/__cowcatwaf")
  \/ req.path = "/favicon.ico"
  \/ ServiceWorkerScript(req)

\* the request carries a cookie that verifies and matches its bindings
ValidCookie(req) == IsSome(req.cookie) /\ verify_cookie(cfg, req, req.cookie[1], now)

\* what the rules engine returns for the request
RuleAction(req) ==
  LET decision == evaluate_rules(cfg, req)
  IN IF IsSome(decision) THEN decision[1].action ELSE "none"

EffectiveDifficulty(req) ==
  LET decision == evaluate_rules(cfg, req)
  IN clamp_difficulty(i32_add(cfg.difficulty, decision[1].difficulty_delta))

\* the three grounds for admission the claim names
Admitted(req) ==
  \/ ValidCookie(req) /\ ~cfg.test_mode
  \/ RuleAction(req) = "allow"
  \/ RuleAction(req) = "challenge" /\ EffectiveDifficulty(req) = 0

Gated == {req \in GateRequests : cfg.difficulty > 0 /\ ~Bypass(req)}

BypassSteps == {"internal", "favicon", "service_worker"}

\* the grounds for admission, for the request the gate handled last
LastAdmitted ==
  \/ last.valid_cookie /\ ~cfg.test_mode
  \/ last.rule = "allow"
  \/ last.rule = "challenge"
       /\ clamp_difficulty(i32_add(cfg.difficulty, last.delta)) = 0

C8_Bypass ==
  /\ [](\A req \in GateRequests :
          Bypass(req) => pow_gate(cfg, req, now).kind = "forward")
  /\ [][(last'.op = "gate" /\ last'.step \in BypassSteps)
          => last'.kind = "forward" /\ last'.status = 0 /\ UNCHANGED <<store, nextId>>]_vars

\* in test mode a service-worker load that the rules block was forwarded
C8_Witness ==
  /\ last.op = "gate"
  /\ last.step = "service_worker"
  /\ last.kind = "forward"
  /\ last.rule = "block"
  /\ cfg.test_mode
  /\ cfg.rules.enabled

\* C9: the cookie check comes before the rules: outside test mode a gated
\* request with a valid cookie is forwarded, also where a Block rule
\* matches, and a decision taken from the rules means the request had no
\* cookie or one that was rejected.
C9_CookieBeforeRules ==
  /\ \A req \in Gated :
       LET d == pow_gate(cfg, req, now) IN
       /\ (ValidCookie(req) /\ ~cfg.test_mode) => d = Forward("cookie")
       /\ d.step \in {"rule_allow", "rule_block", "rule_zero", "rule_challenge", "default"}
            => ~ValidCookie(req)
  /\ (last.op = "gate" /\ last.valid_cookie /\ ~cfg.test_mode
        /\ last.step \notin BypassSteps) => last.kind = "forward" /\ last.step = "cookie"

\* a request the rules block was forwarded on its cookie
C9_Witness ==
  /\ last.op = "gate"
  /\ last.rule = "block"
  /\ last.valid_cookie
  /\ last.step = "cookie"
  /\ last.kind = "forward"
  /\ cfg.rules.enabled

C11_BlockTerminal ==
  /\ [](\A req \in Gated :
          (~cfg.test_mode /\ ~ValidCookie(req) /\ RuleAction(req) = "block")
            => pow_gate(cfg, req, now) = Block("rule_block"))
  /\ [][(last'.op = "gate" /\ last'.rule = "block" /\ ~last'.valid_cookie
           /\ ~cfg.test_mode /\ last'.step \notin BypassSteps)
          => /\ last'.kind = "block"
             /\ last'.status = 403
             /\ last'.body = ""
             /\ UNCHANGED <<store, shadow, nextId>>]_vars

\* a request with a cookie that the gate rejected met a Block rule and was
\* answered 403 with an empty body while a task was waiting in the store
C11_Witness ==
  /\ last.op = "gate"
  /\ last.step = "rule_block"
  /\ last.status = 403
  /\ last.body = ""
  /\ ~last.valid_cookie
  /\ last.cookie_sent
  /\ store # EmptyStore

(***************************************************************************)
(* Properties of the functions (SpecCalls).                                *)
(***************************************************************************)
\* the call thread 1 made has returned
Returned(fn) == thr[1].pc = "returned" /\ thr[1].fn = fn

\* the predicates a rule sets, each with whether it holds for the request
PresentPredicates(m, req, client_ip) ==
  (IF IsSome(m.path_prefix)
     THEN {<<"path_prefix", StartsWith(req.path, m.path_prefix[1])>>} ELSE {})
  \cup (IF IsSome(m.path_exact)
          THEN {<<"path_exact", req.path = m.path_exact[1]>>} ELSE {})
  \cup (IF IsSome(m.header)
          THEN {<<"header", HeaderPredicate_is_match(m.header[1], req)>>} ELSE {})
  \cup (IF m.ip_nets # <<>>
          THEN {<<"ip_cidr", IsSome(client_ip)
                              /\ \E i \in 1..Len(m.ip_nets) :
                                    client_ip[1] \in m.ip_nets[i]>>}
          ELSE {})

AllHold(m, req, client_ip) == \A pr \in PresentPredicates(m, req, client_ip) : pr[2]

\* C12: rules evaluation: an enabled engine returns the action and the
\* difficulty_delta of the first rule, in configured order, all of whose
\* present predicates hold (a rule with none matches every request); when
\* no rule matches it returns the default action with delta 0; a disabled
\* engine returns None.
C12_RulesEvaluation ==
  Returned("evaluate") =>
    LET c == thr[1]
        matching == {i \in 1..Len(c.engine.rules) :
                       AllHold(c.engine.rules[i].matcher, c.req, c.client_ip)}
    IN IF ~c.engine.enabled THEN c.result = None
       ELSE IF matching = {}
         THEN c.result = Some([action |-> c.engine.default_action, difficulty_delta |-> 0])
       ELSE \E i \in matching :
              /\ \A j \in matching : i <= j
              /\ c.result = Some([action |-> c.engine.rules[i].action,
                                  difficulty_delta |-> c.engine.rules[i].difficulty_delta])

\* two rules match, the first of them on three predicates at once, and the
\* decision is the first rule's
C12_Witness ==
  /\ Returned("evaluate")
  /\ thr[1].engine.enabled
  /\ Len(thr[1].engine.rules) = 2
  /\ \A i \in 1..2 : AllHold(thr[1].engine.rules[i].matcher, thr[1].req, thr[1].client_ip)
  /\ Cardinality(PresentPredicates(thr[1].engine.rules[1].matcher, thr[1].req,
                                   thr[1].client_ip)) = 3
  /\ thr[1].engine.rules[2].matcher = AnyMatcher
  /\ thr[1].result = Some([action |-> "block", difficulty_delta |-> 1])

(***************************************************************************)
(* Properties of the difficulty arithmetic (SpecDifficulty).               *)
(***************************************************************************)
\* clamp(base + delta, 0, 10) on the mathematical sum, written so that no
\* intermediate value leaves the 32-bit range
MathClamp(base, delta) ==
  IF delta > MAX_DIFFICULTY - base THEN MAX_DIFFICULTY
  ELSE IF delta < 0 - base THEN 0
  ELSE base + delta

\* the gate took the Challenge branch of the rules
ChallengeOutcome ==
  /\ last.op = "gate"
  /\ last.step \in {"rule_zero", "rule_challenge"}
  /\ last.rule = "challenge"

\* C13 as stated: for every base difficulty and every 32-bit delta a
\* Challenge outcome uses effective = clamp(base + delta, 0, 10) on the
\* mathematical sum; when effective is 0 the request is forwarded and no
\* challenge or task is issued, otherwise a challenge with bits =
\* 4 * effective is issued (or 500 without a task when the random
\* generator fails).
C13_DifficultyAsStated ==
  ChallengeOutcome =>
    LET effective == MathClamp(cfg.difficulty, last.delta) IN
    IF effective = 0
      THEN last.kind = "forward" /\ last.status = 0 /\ last.task = None
    ELSE /\ last.kind = "challenge"
         /\ last.difficulty = effective
         /\ \/ /\ last.status = 403
               /\ IsSome(last.task)
               /\ last.task[1].bits = BITS_PER_LEVEL * effective
            \/ last.status = 500 /\ last.task = None

\* base + delta left the i32 range and wrapped: the rule raises the
\* difficulty by the largest delta and the request was forwarded
C13_Witness ==
  /\ ChallengeOutcome
  /\ cfg.difficulty >= 1
  /\ last.delta = I32_MAX
  /\ MathClamp(cfg.difficulty, last.delta) = MAX_DIFFICULTY
  /\ ~cfg.overflow_checks
  /\ last.kind = "forward"
  /\ last.task = None

(***************************************************************************)
(* Properties of the admission cookie at the gate (SpecGate).              *)
(***************************************************************************)
\* the address a request is bound to under the configured policy
BindingIp(req) == extract_client_ip(req.client, cfg.ip_policy)

\* later requests that present cookie c: to a path the rules challenge and
\* to one they block, from either user-agent and from every client
Presenting(c) ==
  {[PlainRequest EXCEPT !.path = pa, !.ua = ua, !.client = cl, !.cookie = Some(c)] :
     pa \in {"/page", "/admin/x"}, ua \in UserAgents, cl \in Clients}

\* C14: admission after verify: outside test mode the gate forwards every
\* later request to a gated path that presents a cookie a successful
\* verify issued, has the user-agent of that verify and (when the IP
\* policy is not none) its binding address, as long as the cookie's
\* exp >= now.
C14_AdmissionAfterVerify ==
  \A v \in GateVerifyRequests, c \in cookies : \A req \in Presenting(c) :
    ( /\ ~cfg.test_mode
      /\ req.ua = v.ua
      /\ cfg.ip_policy # "none" => BindingIp(req) = BindingIp(v)
      /\ c.payload.exp >= now )
    => pow_gate(cfg, req, now) = Forward("cookie")

\* under the strict policy a request was forwarded on its cookie in the
\* very second the cookie's exp names
C14_Witness ==
  /\ last.op = "gate"
  /\ last.step = "cookie"
  /\ last.kind = "forward"
  /\ last.status = 0
  /\ cfg.ip_policy = "strict"
  /\ \E c \in cookies : c.payload.exp = now

\* what a client can put in the cookie besides the tokens of CookieValues:
\* tokens that carry the server's signature over a payload with another
\* version or with an empty nonce
Signed(payload) == [payload |-> payload, sig |-> sign(ServerSecret, payload)]

OfferedTokens ==
  {HomeMade}
    \cup cookies
    \cup {Resigned(c) : c \in cookies}
    \cup {Rebound(c) : c \in cookies}
    \cup {Signed([c.payload EXCEPT !.v = "v2"]) : c \in cookies}
    \cup {Signed([c.payload EXCEPT !.nonce = EmptyNonce]) : c \in cookies}

Offered ==
  {[PlainRequest EXCEPT !.ua = ua, !.client = cl, !.cookie = Some(c)] :
     ua \in UserAgents, cl \in Clients, c \in OfferedTokens}

\* none of the defects the claim names
Sound(c, req) ==
  /\ c.sig = sign(ServerSecret, c.payload)
  /\ c.payload.v = "v1"
  /\ c.payload.exp >= now
  /\ c.payload.nonce # EmptyNonce
  /\ c.payload.ua = compute_ua_hash(req.ua)
  /\ cfg.ip_policy # "none" =>
       (IF c.payload.ip = None THEN "" ELSE c.payload.ip[1])
         = compute_ip_hash(BindingIp(req))

\* C15: the gate never forwards on the strength of a cookie that is
\* expired (exp < now), has v other than "v1", an empty nonce or a wrong
\* signature, whose ua hash differs from the hash of the request's
\* user-agent, or (IP policy not none) whose ip hash differs from the hash
\* of the request's binding address.
C15_NoForwardOnBadCookie ==
  /\ \A req \in Offered :
       pow_gate(cfg, req, now).step = "cookie" => Sound(req.cookie[1], req)
  /\ \A req \in Offered :
       (~Sound(req.cookie[1], req) /\ pow_gate(cfg, req, now).kind = "forward")
         => pow_gate(cfg, req, now).step \in {"rule_allow", "rule_zero"}
  /\ (last.op = "gate" /\ last.step = "cookie") => last.valid_cookie

\* every cookie issued has expired, a request presented a cookie and was
\* answered with a challenge
C15_Witness ==
  /\ last.op = "gate"
  /\ last.cookie_sent
  /\ ~last.valid_cookie
  /\ last.kind = "challenge"
  /\ last.status = 403
  /\ cookies # {}
  /\ \A c \in cookies : c.payload.exp < now

(***************************************************************************)
(* Properties of the cookie value (SpecCalls).                             *)
(***************************************************************************)
\* the payload carries the arguments generate_cookie was called with; an
\* empty ip_hash is carried as an absent ip
CarriesInputs(payload, c) ==
  /\ payload.bits = c.bits
  /\ payload.scope = c.scope
  /\ payload.ua = c.ua_hash
  /\ (IF payload.ip = None THEN "" ELSE payload.ip[1]) = c.ip_hash
  /\ payload.nonce = c.nonce
  /\ payload.exp = c.issued + c.duration_seconds

\* C16 as stated: for every secret and every input, verify_cookie of the
\* generated cookie, evaluated before exp, returns a payload that carries
\* the inputs and has exp = issue time + duration.
C16_RoundTripAsStated ==
  (Returned("cookie") /\ thr[1].verified < thr[1].issued + thr[1].duration_seconds)
    => /\ IsSome(thr[1].result.payload)
       /\ CarriesInputs(thr[1].result.payload[1], thr[1])

\* C16 amended: for every secret and every input with a non-empty nonce,
\* verify_cookie of the generated cookie, evaluated no later than exp,
\* returns a payload that carries the inputs and has exp = issue time +
\* duration; with an empty nonce it returns None.
C16_RoundTrip ==
  (Returned("cookie") /\ thr[1].verified <= thr[1].issued + thr[1].duration_seconds)
    => IF thr[1].nonce = "" THEN thr[1].result.payload = None
       ELSE /\ IsSome(thr[1].result.payload)
            /\ CarriesInputs(thr[1].result.payload[1], thr[1])

\* a cookie without an ip, for a host with a dot in its name, verified in
\* the second its exp names, came back with its inputs
C16_Witness ==
  /\ Returned("cookie")
  /\ thr[1].ip_hash = ""
  /\ thr[1].scope = "a.b"
  /\ thr[1].nonce # ""
  /\ thr[1].verified = thr[1].issued + thr[1].duration_seconds
  /\ thr[1].duration_seconds > 0
  /\ IsSome(thr[1].result.payload)
  /\ CarriesInputs(thr[1].result.payload[1], thr[1])

\* the two halves of a cookie value: what stands before the first '.' and
\* what stands after it, once surrounding white space and quotes and the
\* '=' padding of each half are set aside
PayloadHalf(raw) ==
  LET token == trim_matches(trim(raw), "\"")
  IN trim_end_matches(SubSeq(token, 1, find(token, ".") - 1), "=")

SignatureHalf(raw) ==
  LET token == trim_matches(trim(raw), "\"")
  IN trim_end_matches(SubSeq(token, find(token, ".") + 1, Len(token)), "=")

\* C17: signature rejection: changing any single byte of the payload half
\* or of the signature half of a valid cookie to another value makes
\* verify_cookie return None; and verify_cookie accepts a value only if it
\* has both halves and its signature half is the HMAC, under the server
\* secret, of its payload half.
C17_SignatureRejection ==
  Returned("tamper") =>
    /\ (thr[1].flip # 0 /\ thr[1].flip # find(thr[1].token, "."))
         => thr[1].result = None
    /\ IsSome(thr[1].result) =>
         /\ find(thr[1].raw, ".") # 0
         /\ SignatureHalf(thr[1].raw) = wire_sign(ServerSecret, PayloadHalf(thr[1].raw))

\* the last byte of the signature was changed to '=', which verify_cookie
\* trims away, and the value was rejected
C17_Witness ==
  /\ Returned("tamper")
  /\ thr[1].flip = Len(thr[1].token)
  /\ SubSeq(thr[1].raw, thr[1].flip, thr[1].flip) = "="
  /\ thr[1].result = None

(***************************************************************************)
(* Properties of the frame codec (SpecCalls).                              *)
(***************************************************************************)
\* the header of a task response frame: 'C', 'W', version 1, type 2 and a
\* declared length that is the length of the payload
TaskResponseHeader(frame) ==
  /\ Len(frame) >= 8
  /\ frame[1] = 67 /\ frame[2] = 87 /\ frame[3] = 1 /\ frame[4] = 2
  /\ ((frame[5] * 256 + frame[6]) * 256 + frame[7]) * 256 + frame[8] = Len(frame) - 8

\* the nine fields of the response
SameFields(decoded, resp) ==
  /\ "error" \notin DOMAIN decoded
  /\ decoded = [f \in {"task_id", "seed", "exp", "bits", "scope", "ua_hash", "ip_hash",
                        "workers", "worker_type"} |-> resp[f]]

\* what the wire format can carry: bits in 16 bits, workers in 8, strings
\* of at most 65535 bytes, a worker_type that is not empty
Encodable(resp) ==
  /\ resp.bits \in 0..65535
  /\ resp.workers \in 0..255
  /\ resp.worker_type # <<>>
  /\ \A f \in {"task_id", "seed", "scope", "ua_hash", "ip_hash", "worker_type"} :
       Len(resp[f]) <= 65535

\* C18 as stated: for any TaskResponse R the frame has the magic, version
\* 1, type 2 and the payload's length, and the client's decoding of it
\* yields the nine fields of R.
C18_CodecAsStated ==
  Returned("task_response") =>
    /\ TaskResponseHeader(thr[1].result.frame)
    /\ SameFields(thr[1].result.decoded, thr[1].resp)

\* C18 amended: for any TaskResponse R the frame has the magic, version 1,
\* type 2 and the payload's length; when R's bits fit 16 bits, its workers
\* 8 bits, its strings are at most 65535 bytes long and its worker_type is
\* not empty, the client's decoding yields the nine fields of R; otherwise
\* it differs from R: bits and workers come back modulo 65536 and 256, an
\* empty worker_type comes back as "wasm", and a task_id, seed, scope or
\* ua_hash longer than 65535 bytes is left out, which the client reports
\* as an error.
C18_Codec ==
  Returned("task_response") =>
    /\ TaskResponseHeader(thr[1].result.frame)
    /\ Encodable(thr[1].resp) <=> SameFields(thr[1].result.decoded, thr[1].resp)
    /\ LET resp == thr[1].resp
           decoded == thr[1].result.decoded
       IN IF \E f \in {"task_id", "seed", "scope", "ua_hash"} : Len(resp[f]) > 65535
            THEN "error" \in DOMAIN decoded
          ELSE /\ "error" \notin DOMAIN decoded
               /\ decoded.bits = resp.bits % 65536
               /\ decoded.workers = resp.workers % 256
               /\ decoded.worker_type = IF resp.worker_type = <<>>
                                          THEN <<119, 97, 115, 109>>
                                        ELSE resp.worker_type

\* a response with the largest bits and workers, a negative exp, an empty
\* scope and no ip hash came back field for field
C18_Witness ==
  /\ Returned("task_response")
  /\ thr[1].resp.bits = 65535
  /\ thr[1].resp.workers = 255
  /\ thr[1].resp.exp = -1
  /\ thr[1].resp.scope = <<>>
  /\ thr[1].resp.ip_hash = <<>>
  /\ SameFields(thr[1].result.decoded, thr[1].resp)


\* C19: applying deobfuscate_frame with the 21-byte key twice to a byte
\* string yields that byte string, and a frame masked by one side and
\* unmasked by the other is recovered unchanged.
C19_XorInvolution ==
  Returned("mask") =>
    /\ Len(XOR_KEY) = 21
    /\ thr[1].result.twice = thr[1].data
    /\ thr[1].result.client = thr[1].data
    /\ thr[1].result.server = thr[1].data

C19_Witness ==
  /\ Returned("mask")
  /\ Len(thr[1].data) > Len(XOR_KEY)
  /\ \A i \in 1..Len(thr[1].data) : thr[1].result.once[i] # thr[1].data[i]
  /\ thr[1].result.twice = thr[1].data

\* a plain frame of the given type: the server's decode_frame reads it as is
PlainFrame(frame, frame_type) ==
  /\ decode_frame(frame) # None
  /\ decode_frame(frame)[1].frame_type = frame_type

\* a frame masked after framing: as is it is no frame, and unmasking the
\* whole of it, header included, gives a plain frame of the given type
MaskedFrame(frame, frame_type) ==
  /\ decode_frame(frame) = None
  /\ PlainFrame(obfuscate_frame(frame), frame_type)

\* C20: every TaskResp frame the server emits, in the reply of POST /task
\* and in the challenge page, is XOR-masked after framing; a VerifyReq is
\* unmasked before it is decoded; every VerifyResp and Error frame is
\* emitted plain.
C20_MaskingByFrameType ==
  /\ Returned("emit") =>
       CASE thr[1].kind \in {"task", "page"} ->
              /\ MaskedFrame(thr[1].result, FRAME_TYPE_TASK_RESPONSE)
              /\ LET decoded == decode_task_response_json(obfuscate_frame(thr[1].result))
                 IN /\ "error" \notin DOMAIN decoded
                    /\ decoded.task_id = thr[1].task.task_id
                    /\ decoded.seed = thr[1].task.seed
         [] thr[1].kind = "verify" ->
              /\ PlainFrame(thr[1].result, FRAME_TYPE_VERIFY_RESPONSE)
              /\ decode_frame(thr[1].result)[1].payload
                   = append_tlv(<<>>, TLV_REDIRECT, thr[1].redirect)
         [] thr[1].kind = "error" ->
              /\ PlainFrame(thr[1].result, FRAME_TYPE_ERROR)
              /\ decode_frame(thr[1].result)[1].payload
                   = append_tlv(<<>>, TLV_ERROR, thr[1].message)
  /\ Returned("verify_body") =>
       /\ thr[1].result # None =>
            /\ MaskedFrame(thr[1].body, FRAME_TYPE_VERIFY_REQUEST)
            /\ thr[1].body = encode_verify_request(thr[1].result[1].task_id,
                                                   thr[1].result[1].nonce,
                                                   thr[1].result[1].redirect)
       /\ (\E t, n \in {<<116, 49>>, <<49, 50>>}, r \in Redirects :
             thr[1].body = encode_verify_request(t, n, r)) => thr[1].result # None
       /\ decode_frame(thr[1].body) # None => thr[1].result = None

C20_Witness ==
  /\ Returned("emit") /\ thr[1].kind = "page"
  /\ MaskedFrame(thr[1].result, FRAME_TYPE_TASK_RESPONSE)
  /\ thr[1].result = pow_task_reply(thr[1].task, thr[1].workers, thr[1].worker_type)

\* the reply is HTTP 400 with a plain type-5 frame whose one TLV is the
\* error text "invalid request"
InvalidRequestReply ==
  /\ last.status = 400
  /\ last.frame = <<FRAME_MAGIC0, FRAME_MAGIC1, FRAME_VERSION, FRAME_TYPE_ERROR, 0, 0, 0, 18,
                    TLV_ERROR, 0, 15>> \o as_bytes("invalid request")

TaskNotFoundReply ==
  /\ last.status = 400
  /\ last.frame = <<FRAME_MAGIC0, FRAME_MAGIC1, FRAME_VERSION, FRAME_TYPE_ERROR, 0, 0, 0, 28,
                    TLV_ERROR, 0, 25>> \o as_bytes(MSG_TASK_NOT_FOUND_OR_EXPIRED)

\* a well-formed verify frame that names a task the store does not hold
NamesUnknownTask ==
  /\ last.op = "verify"
  /\ last.body \in GoodVerifyFrames
  /\ last.named \notin DOMAIN last.before

\* C22 as stated: every well-formed verify frame whose task_id is not in
\* the store is answered with HTTP 400 and the type-5 frame 'task not found
\* or expired', and the handler never ends without that response.  The
\* handler does not keep this: with the warn level enabled it formats
\* short_id of the task_id the client sent, which panics on a task_id whose
\* sixth byte is inside a character (and on any non-ASCII task_id in a
\* build with debug assertions).
C22_UnknownTaskAsStated == NamesUnknownTask => TaskNotFoundReply

\* C22: what the handler does keep: the store is left as it was, the reply
\* is the stated one whenever short_id returns, and the handler ends with
\* no response exactly when short_id is evaluated and panics.
C22_UnknownTask ==
  NamesUnknownTask =>
    LET task_id == pow_verify_request(last.body)[1].task_id IN
    /\ store = last.before
    /\ IF cfg.warn_enabled /\ short_id(task_id, cfg.debug_assertions) = None
         THEN last.kind = "Panic" /\ last.status = 0 /\ last.frame = <<>>
         ELSE TaskNotFoundReply

\* a release build with the default log filter: the task_id "aaaaa" then
\* U+00E9 names no task, and the handler ends without a response
C22_Witness ==
  /\ NamesUnknownTask
  /\ cfg.warn_enabled /\ ~cfg.debug_assertions
  /\ pow_verify_request(last.body)[1].task_id = <<97, 97, 97, 97, 97, 195, 169>>
  /\ last.kind = "Panic" /\ last.frame = <<>>

\* a returned call that resolved the addresses of two requests
IpReturned == thr[1].pc = "returned" /\ thr[1].fn = "ip"

\* C23: under the strict policy the binding address is the peer address
\* whatever the forwarding headers say: two requests from one peer get the
\* same ip_hash at issuance, the same answer from POST /verify and the same
\* answer from the cookie check; under the policy none the binding address
\* is the empty string, nothing is bound and every request gets the answer
\* the issuing client gets.
C23_StrictIgnoresHeaders ==
  IpReturned =>
    LET c == thr[1] IN
    /\ c.policy = "strict" =>
         /\ c.result.other.binding_ip = c.other.peer
         /\ c.result.client.binding_ip = c.client.peer
         /\ c.other.peer = c.client.peer =>
              /\ c.result.other.ip_hash = c.result.client.ip_hash
              /\ c.result.other.verify = c.result.client.verify
              /\ c.result.other.cookie_ok = c.result.client.cookie_ok
         /\ c.other.peer # c.client.peer =>
              /\ c.result.other.verify = MSG_IP_ADDRESS_MISMATCH
              /\ ~c.result.other.cookie_ok
    /\ c.policy = "none" =>
         /\ c.result.other.binding_ip = ""
         /\ c.result.other.ip_hash = ""
         /\ c.result.other.verify = "" /\ c.result.other.cookie_ok

\* two requests from one peer, one with both headers and one with none,
\* under strict: both verify and both pass the cookie check
C23_Witness ==
  /\ IpReturned
  /\ thr[1].policy = "strict"
  /\ thr[1].client.peer = thr[1].other.peer
  /\ thr[1].client.xff = <<>> /\ thr[1].client.xri = <<>>
  /\ thr[1].other.xff = <<"10.0.0.2", "10.0.0.1">> /\ thr[1].other.xri = <<"10.0.0.4">>
  /\ thr[1].result.other.verify = "" /\ thr[1].result.other.cookie_ok
  /\ thr[1].result.other.ip_hash = compute_ip_hash(thr[1].other.peer)

\* the value of a header whose comma-separated tokens are h
RECURSIVE HeaderValue(_)
HeaderValue(h) ==
  IF h = <<>> THEN ""
  ELSE IF Len(h) = 1 THEN h[1]
  ELSE h[1] \o "," \o HeaderValue(Tail(h))

\* the first comma-separated token of a header without the white space
\* around it, "" for an absent header
FirstToken(h) == IF h = <<>> THEN "" ELSE trim(h[1])

\* C24 as stated: the rules see the X-Real-IP value when the header is
\* present and non-empty, else the first token of X-Forwarded-For, else the
\* peer address; the binding under enable takes the first token of
\* X-Forwarded-For, else the X-Real-IP value, else the peer address.  The
\* code never takes the value of X-Real-IP: it takes its first token too.
C24_PrecedenceAsStated ==
  IpReturned =>
    LET c == thr[1].other
        r == thr[1].result.other
    IN /\ r.rule_ip = IF HeaderValue(c.xri) # "" THEN HeaderValue(c.xri)
                      ELSE IF FirstToken(c.xff) # "" THEN FirstToken(c.xff)
                      ELSE c.peer
       /\ thr[1].policy = "enable" =>
            r.binding_ip = IF FirstToken(c.xff) # "" THEN FirstToken(c.xff)
                           ELSE IF HeaderValue(c.xri) # "" THEN HeaderValue(c.xri)
                           ELSE c.peer

\* C24: both resolutions read a header as its first comma-separated token,
\* trimmed, and pass over a header that is absent or whose first token is
\* empty.  The rules see X-Real-IP, else X-Forwarded-For, else the peer
\* address, whatever the IP policy is; the binding under enable takes
\* X-Forwarded-For, else X-Real-IP, else the peer address; neither result
\* depends on the other.
C24_IpPrecedence ==
  IpReturned =>
    LET c == thr[1].other
        r == thr[1].result.other
    IN /\ FirstToken(c.xri) # "" => r.rule_ip = FirstToken(c.xri)
       /\ (FirstToken(c.xri) = "" /\ FirstToken(c.xff) # "") => r.rule_ip = FirstToken(c.xff)
       /\ (FirstToken(c.xri) = "" /\ FirstToken(c.xff) = "") => r.rule_ip = c.peer
       /\ r.rule_addr = IF r.rule_ip \in ValidIps THEN Some(r.rule_ip) ELSE None
       /\ thr[1].policy = "enable" =>
            /\ FirstToken(c.xff) # "" => r.binding_ip = FirstToken(c.xff)
            /\ (FirstToken(c.xff) = "" /\ FirstToken(c.xri) # "") =>
                 r.binding_ip = FirstToken(c.xri)
            /\ (FirstToken(c.xff) = "" /\ FirstToken(c.xri) = "") => r.binding_ip = c.peer
            /\ r.ip_hash = compute_ip_hash(r.binding_ip)

\* a request with both headers under enable: the rules see the first token
\* of X-Real-IP and the binding the first token of X-Forwarded-For
C24_Witness ==
  /\ IpReturned
  /\ thr[1].policy = "enable"
  /\ thr[1].other.xri = <<"10.0.0.4", " 10.0.0.5">>
  /\ thr[1].other.xff = <<"10.0.0.3 ", "10.0.0.1">>
  /\ thr[1].result.other.rule_ip = "10.0.0.4"
  /\ thr[1].result.other.binding_ip = "10.0.0.3"

\* the difficulty the handler of the last request built its task at
IssuedAt ==
  IF last'.op = "task" THEN cfg.difficulty ELSE last'.difficulty

\* the task frame as the client reads it: unmasked, then decoded
ClientTaskResponse(frame) == decode_task_response_json(obfuscate_frame(frame))

\* C25: every task in the store has bits in [0, 40] and an expiry no more
\* than 120 seconds ahead; a task enters the store with
\* bits = 4 * clamp(d, 0, 10) for the difficulty d of the request that
\* issued it and exp = the time of issue + 120, the frame sent with it
\* carries the bits and the expiry stored, and a task in the store is never
\* changed afterwards.
C25_TaskInvariant ==
  /\ [](\A k \in DOMAIN store :
          /\ store[k].bits \in 0..(BITS_PER_LEVEL * MAX_DIFFICULTY)
          /\ store[k].exp - TASK_TTL <= now
          /\ store[k].exp > store[k].exp - TASK_TTL)
  /\ [][/\ \A k \in DOMAIN store \cap DOMAIN store' : store'[k] = store[k]
        /\ \A k \in DOMAIN store' \ DOMAIN store :
             LET d == IssuedAt
                 clamped == IF d < 0 THEN 0 ELSE IF d > 10 THEN 10 ELSE d
             IN /\ store'[k].bits = 4 * clamped
                /\ store'[k].exp = now + 120
                /\ last'.task = Some(store'[k])
                /\ ClientTaskResponse(last'.frame).bits = store'[k].bits
                /\ ClientTaskResponse(last'.frame).exp = store'[k].exp]_vars

\* a challenge page issued at difficulty 10 at time 120 while a task of
\* time 0 is in the store: 40 bits stored and sent, expiry 240
C25_Witness ==
  /\ last.op = "gate" /\ last.status = 403
  /\ now = TASK_TTL
  /\ Cardinality(DOMAIN store) = 2
  /\ \E k \in DOMAIN store :
       /\ last.task = Some(store[k])
       /\ store[k].bits = 40 /\ store[k].exp = 240
       /\ ClientTaskResponse(last.frame).bits = 40

\* a returned call that loaded the configuration and ran the gate
LoadReturned == thr[1].pc = "returned" /\ thr[1].fn = "load"

\* the difficulty the file and the environment configure: the override
\* where the variable holds a number, else the file's, else the default
ConfiguredDifficulty(toml, env) ==
  IF env # None /\ trim(env[1]) # "" /\ parse_i32(trim(env[1])) # None
    THEN parse_i32(trim(env[1]))[1]
  ELSE IF toml # None THEN toml[1]
  ELSE DEFAULT_DIFFICULTY

\* the gate forwards at its first test
ForwardsUngated(gate) ==
  gate # None /\ gate[1].kind = "forward" /\ gate[1].step = "disabled"

\* C26 as stated: a difficulty configured as 0, in the file or through the
\* environment, gives (where the server starts) a running gate with base difficulty 0 that forwards
\* every request before any cookie check, rule or challenge.  The code does
\* not keep this for the file: apply_defaults takes a 0 read from the file
\* for an unset value and replaces it with the default 3.
C26_ZeroDisablesAsStated ==
  (/\ LoadReturned
   /\ thr[1].result.config # None
   /\ ConfiguredDifficulty(thr[1].toml, thr[1].env) = 0) =>
    (thr[1].result.config = Some(0) /\ ForwardsUngated(thr[1].result.gate))

\* C26: what the code keeps: a 0 from the environment override gives base
\* difficulty 0, a gate at base difficulty 0 forwards every request at its
\* first test, and a 0 in the file with no override runs at the default.
C26_ZeroDisables ==
  LoadReturned =>
    LET c == thr[1]
        overridden == c.env # None /\ trim(c.env[1]) # ""
    IN /\ (overridden /\ parse_i32(trim(c.env[1])) = Some(0)) => c.result.config = Some(0)
       /\ c.result.config = Some(0) => (overridden /\ ForwardsUngated(c.result.gate))
       /\ (~overridden /\ c.toml = Some(0)) =>
            (c.result.config = Some(DEFAULT_DIFFICULTY) /\ ~ForwardsUngated(c.result.gate))

\* difficulty = 0 in the file, no override, a first visit: the gate runs at
\* the default difficulty and answers with a challenge
C26_Witness ==
  /\ LoadReturned
  /\ thr[1].toml = Some(0) /\ thr[1].env = None
  /\ thr[1].req = PlainRequest
  /\ thr[1].result.config = Some(DEFAULT_DIFFICULTY)
  /\ thr[1].result.gate[1].kind = "challenge"
  /\ thr[1].result.gate[1].difficulty = DEFAULT_DIFFICULTY

\* the plain type-4 frame whose one TLV is the redirect
VerifyResponseFrame(redirect) ==
  <<FRAME_MAGIC0, FRAME_MAGIC1, FRAME_VERSION, FRAME_TYPE_VERIFY_RESPONSE,
    0, 0, 0, Len(redirect) + 3, TLV_REDIRECT, 0, Len(redirect)>> \o redirect

\* C27: a verify that succeeds consumes the task and answers 200 with a
\* plain type-4 frame and a Set-Cookie for cowcat.waf.token; the cookie's
\* payload carries the consumed task's bits, scope, ua_hash and ip_hash
\* and the nonce submitted (as the server decoded it), its Max-Age is
\* cookie_expire_hours * 3600 and its expiry that far ahead; the redirect
\* in the frame is /__cowcatwaf/ok in test mode, else "/" when the client
\* sent an empty redirect, else the redirect the client sent.
C27_VerifySuccess ==
  (last.op = "verify" /\ last.status = 200) =>
    LET sent == pow_verify_request(last.body)[1]
        task == last.before[last.named]
        cookie == last.set_cookie[1]
        payload == cookie.value.payload
    IN /\ last.named \in DOMAIN last.before /\ last.named \notin DOMAIN store
       /\ last.task = Some(task)
       /\ last.set_cookie # None
       /\ cookie.name = "cowcat.waf.token"
       /\ payload.bits = task.bits
       /\ payload.scope = task.scope
       /\ payload.ua = task.ua_hash
       /\ payload.ip = (IF task.ip_hash = "" THEN None ELSE Some(task.ip_hash))
       /\ payload.nonce.text = sent.nonce
       /\ cookie.max_age = cfg.cookie_expire_hours * 3600
       /\ payload.exp = now + cfg.cookie_expire_hours * 3600
       /\ cookie.value \in cookies
       /\ last.frame = VerifyResponseFrame(
            IF cfg.test_mode THEN as_bytes("/__cowcatwaf/ok")
            ELSE IF sent.redirect = <<>> THEN <<47>>
            ELSE sent.redirect)

\* a verify that succeeds outside test mode under the strict policy with
\* the redirect /a?b
C27_Witness ==
  /\ last.op = "verify" /\ last.status = 200
  /\ ~cfg.test_mode /\ cfg.ip_policy = "strict"
  /\ last.set_cookie[1].value.payload.ip # None
  /\ last.set_cookie[1].max_age = 3600
  /\ last.frame = VerifyResponseFrame(<<47, 97, 63, 98>>)

\* a verify that succeeds in test mode: the redirect is the internal page
\* whatever the client sent
C27_WitnessTestMode ==
  /\ last.op = "verify" /\ last.status = 200
  /\ cfg.test_mode
  /\ pow_verify_request(last.body)[1].redirect = <<47, 97, 63, 98>>
  /\ last.set_cookie[1].max_age = 86400
  /\ last.frame = VerifyResponseFrame(as_bytes("/__cowcatwaf/ok"))

\* bit n of a digest, bit 1 being the high bit of the first byte
DigestBit(digest, n) == (digest[((n - 1) \div 8) + 1] \div (2 ^ (7 - ((n - 1) % 8)))) % 2

\* the number of zero bits before the first 1 bit, all of them when there
\* is no 1 bit
LeadingZeroBits(digest) ==
  LET ones == {n \in 1..(8 * Len(digest)) : DigestBit(digest, n) = 1}
  IN IF ones = {} THEN 8 * Len(digest)
     ELSE (CHOOSE n \in ones : \A m \in ones : n <= m) - 1

\* C28: verify_pow hashes v1|seed|exp|bits|scope|ua_hash|nonce and accepts
\* iff the digest has at least task.bits leading zero bits; the count is
\* exact to the bit, and 256 for the digest of zeros.
C28_PowAcceptance ==
  (thr[1].pc = "returned" /\ thr[1].fn = "pow") =>
    LET c == thr[1] IN
    /\ c.result.preimage = "v1|" \o c.task.seed \o "|" \o ToString(c.task.exp) \o "|"
                             \o ToString(c.task.bits) \o "|" \o c.task.scope \o "|"
                             \o c.task.ua_hash \o "|" \o c.nonce
    /\ c.result.leading = LeadingZeroBits(c.digest)
    /\ c.result.accepted <=> LeadingZeroBits(c.digest) >= c.task.bits
    /\ (\A k \in 1..32 : c.digest[k] = 0) => c.result.leading = 256

\* a digest with 39 leading zero bits is refused at 40 bits, one with
\* exactly 40 is accepted
C28_Witness ==
  /\ thr[1].pc = "returned" /\ thr[1].fn = "pow"
  /\ thr[1].task.bits = 40
  /\ \/ thr[1].digest = Digest(<<0, 0, 0, 0, 1>>) /\ ~thr[1].result.accepted
     \/ thr[1].digest = Digest(<<0, 0, 0, 0, 0, 128>>) /\ thr[1].result.accepted
                                                        /\ thr[1].result.leading = 40

\* C29: the validator of POST /verify checks the user-agent hash, then the
\* IP hash when the IP policy is not none, then the proof of work, and the
\* reply names the first check that fails; a task past its expiry is
\* answered 'task expired' whatever the three checks would say, and a task
\* at or before its expiry is never answered so.
C29_ValidatorOrder ==
  (thr[1].pc = "returned" /\ thr[1].fn = "order") =>
    LET c == thr[1]
        wrong_ua == c.who.ua # c.issued_to.ua
        wrong_ip == /\ c.policy # "none"
                    /\ extract_client_ip(c.who.client, c.policy)
                         # extract_client_ip(c.issued_to.client, c.policy)
        wrong_nonce == c.zeros < c.result.task.bits
    IN /\ c.result.left = {}
       /\ c.result.msg =
            (IF c.t > c.result.task.exp THEN "task expired"
             ELSE IF wrong_ua THEN "user agent mismatch"
             ELSE IF wrong_ip THEN "ip address mismatch"
             ELSE IF wrong_nonce THEN "invalid proof of work"
             ELSE "")
       /\ c.result.status = (IF c.result.msg = "" THEN 200 ELSE 400)

\* a live task, the right user-agent, another address and a nonce that
\* does not solve it: the reply names the address
C29_Witness ==
  /\ thr[1].pc = "returned" /\ thr[1].fn = "order"
  /\ thr[1].t = TASK_TTL
  /\ thr[1].policy = "strict"
  /\ thr[1].who.ua = thr[1].issued_to.ua
  /\ thr[1].who.client.peer # thr[1].issued_to.client.peer
  /\ thr[1].zeros = 0 /\ thr[1].result.task.bits = 4
  /\ thr[1].result.msg = "ip address mismatch"

\* C30: every task in the store is eventually out of it, given that the
\* sweeper keeps running and the clock advances; and a task leaves the
\* store only through the verify request that names it or through a sweep
\* after its expiry.
C30_EventualRemoval ==
  /\ \A k \in 1..MaxTasks : (k \in DOMAIN store) ~> (k \notin DOMAIN store)
  /\ [][\A k \in DOMAIN store \ DOMAIN store' :
          \/ last'.op = "verify" /\ last'.task_id = k
          \/ last'.op = "sweep" /\ store[k].exp < now]_vars

\* a sweep has just removed a task that no verify request named, while
\* another verify request had consumed the other task
C30_Witness ==
  /\ last.op = "sweep"
  /\ nextId = MaxTasks + 1
  /\ store = EmptyStore
  /\ Cardinality(DOMAIN shadow) = 1
  /\ \A id \in DOMAIN shadow : shadow[id].exp < now

\* a verify request for a task that no verify request has named yet, sent
\* no later than the task's exp by the client the task was issued to, with
\* a nonce that solves it
HonestVerify(req) ==
  /\ VerifyBodyOk(req.body)
  /\ req.body.task_id \in DOMAIN shadow
  /\ LET task == shadow[req.body.task_id] IN
       /\ task.exp >= now
       /\ task.ua_hash = compute_ua_hash(req.ua)
       /\ task.ip_hash = BindingIpHash(req.client, cfg.ip_policy)
       /\ verify_pow(task, req.body.nonce)

\* C31: the first verify request for an issued task, sent while exp >= now
\* from the same user-agent and binding address with a nonce that solves
\* the task, is answered 200 and emits one new cookie, whatever the sweeper
\* and the requests for other tasks have done before.
C31_HonestVerifySucceeds ==
  [][\A req \in VerifyRequests :
       (HonestVerify(req) /\ VerifyRequest(req))
         => /\ last'.status = 200
            /\ last'.kind = "Ok"
            /\ Cardinality(cookies') = Cardinality(cookies) + 1
            /\ \E c \in cookies' \ cookies : c.payload.nonce = req.body.nonce]_vars

\* task 1, issued at 180, has been verified at 300 = exp, after the sweep
\* of 300 ran over it and over task 2, which is still in the store
C31_Witness ==
  /\ last.op = "verify" /\ last.status = 200 /\ last.task_id = 1
  /\ now = 300 /\ wake = 300 + TASK_CLEANUP_INTERVAL
  /\ 2 \in DOMAIN store /\ store[2].exp = 300
  /\ Cardinality(cookies) = 1

\* the request matches a Challenge rule whose effective difficulty is
\* above the base difficulty
RaisedBy(req) ==
  /\ RuleAction(req) = "challenge"
  /\ EffectiveDifficulty(req) > cfg.difficulty

\* C32 as stated: a cookie obtained by solving a task of fewer than 4 * d
\* bits does not admit a request that a Challenge rule raises to
\* difficulty d.
C32_RaisedDifficultyAsStated ==
  \A req \in RaiseRequests : \A c \in cookies :
    (RaisedBy(req) /\ c.payload.bits < BITS_PER_LEVEL * EffectiveDifficulty(req))
      => pow_gate(cfg, [req EXCEPT !.cookie = Some(c)], now).kind # "forward"

\* the gate has forwarded, on its cookie, a request that the rules raise to
\* difficulty 2, and every cookie issued so far is for a task of 4 bits
C32_Witness ==
  /\ last.op = "gate" /\ last.kind = "forward" /\ last.step = "cookie"
  /\ last.rule = "challenge" /\ last.delta > 0
  /\ clamp_difficulty(i32_add(cfg.difficulty, last.delta)) = 2
  /\ cookies # {}
  /\ \A c \in cookies : c.payload.bits = BITS_PER_LEVEL * cfg.difficulty

\* C33 as stated: when POST /task answers 400 or 500 with a type-5 frame,
\* the client's decode_task_response of the body reports the message the
\* frame carries.
C33_TaskErrorsAsStated ==
  (last.op = "task" /\ last.status \in {400, 500})
    => decode_task_response(last.frame) = [error |-> as_bytes(last.msg)]

\* POST /task has answered 500 with the type-5 frame for "failed to
\* generate task", which read as it was sent carries that message, and the
\* client's decoder reports "bad magic" for it
C33_Witness ==
  /\ last.op = "task" /\ last.status = 500
  /\ parse_frame(last.frame) # None
  /\ parse_frame(last.frame)[1].frame_type = FRAME_TYPE_ERROR
  /\ decode_task_response_json(last.frame) = [error |-> as_bytes(MSG_FAILED_TO_GENERATE_TASK)]
  /\ decode_task_response(last.frame) = error_json("bad magic")

\* C34: for every digest and every bits in 0..40 the solver's test holds
\* iff the verifier's count of leading zero bits is at least bits.
C34_SolverAgreesWithVerifier ==
  (thr[1].pc = "returned" /\ thr[1].fn = "solver")
    => (thr[1].result.client <=> thr[1].result.server >= thr[1].bits)

\* a digest with exactly 12 leading zero bits, tested for 12 bits and
\* accepted by both sides
C34_Witness ==
  /\ thr[1].pc = "returned" /\ thr[1].fn = "solver"
  /\ thr[1].bits = 12 /\ thr[1].result.server = 12 /\ thr[1].result.client

\* the header the predicate names is present and its value, lower-cased,
\* is the configured equals or contains the configured contains
EqualsOrContains(predicate, req) ==
  LET value == HeaderGet(req, predicate.name) IN
  /\ IsSome(value)
  /\ \/ /\ IsSome(predicate.equals)
        /\ to_ascii_lowercase(value[1]) = to_ascii_lowercase(predicate.equals[1])
     \/ /\ IsSome(predicate.contains)
        /\ Contains(to_ascii_lowercase(value[1]), to_ascii_lowercase(predicate.contains[1]))

\* C35 as stated: a header predicate matches iff the header is present and
\* its value equals `equals` or contains `contains`, case-insensitively,
\* also where the predicate sets both.
C35_HeaderPredicateAsStated ==
  (thr[1].pc = "returned" /\ thr[1].fn = "header")
    => (thr[1].result <=> EqualsOrContains(thr[1].predicate, thr[1].req))

\* a predicate with equals "Bot" and contains "bot" did not match the
\* User-Agent GoogleBot, which contains "bot"
C35_Witness ==
  /\ thr[1].pc = "returned" /\ thr[1].fn = "header"
  /\ IsSome(thr[1].predicate.equals) /\ IsSome(thr[1].predicate.contains)
  /\ thr[1].req.ua = "GoogleBot"
  /\ Contains(to_ascii_lowercase(thr[1].req.ua), "bot")
  /\ ~thr[1].result

\* the slot is empty or holds the status, headers and body of one 2xx
\* response of the upstream
Whole(value) ==
  \/ value = None
  \/ /\ is_success(value[1].status)
     /\ [status |-> value[1].status, headers |-> value[1].headers, body |-> value[1].body]
          \in UpstreamResponses

\* C36: the slot changes only in the assignment of a request that holds a
\* 2xx response of the upstream, and ends as that response; a request whose
\* upstream answer is not 2xx or fails leaves the slot as it is and ends; a
\* request is answered from the slot only when the entry is younger than
\* 3600 seconds, and with what the entry holds; and a request that looks at
\* the slot finds it empty or whole.
C36_FaviconCache ==
  /\ [][favicon_cache'.value # favicon_cache.value =>
          \E p \in Threads :
            /\ favicon_cache.writer = Some(p)
            /\ last'.op = "favicon" /\ last'.thread = p
            /\ last'.step \in {"store_head", "store_tail"}
            /\ is_success(thr[p].cache.status)
            /\ [status |-> thr[p].cache.status, headers |-> thr[p].cache.headers,
                body |-> thr[p].cache.body] \in UpstreamResponses
            /\ last'.step = "store_tail" => favicon_cache'.value = Some(thr[p].cache)]_vars
  /\ [][(last'.op = "favicon" /\ last'.step = "request" /\ last'.from = "upstream")
          => /\ favicon_cache' = favicon_cache
             /\ thr'[last'.thread] = Idle
             /\ ~is_success(last'.status)]_vars
  /\ [][(last'.op = "favicon" /\ last'.from = "cache")
          => /\ IsSome(favicon_cache.value)
             /\ now - favicon_cache.value[1].cached_at < 3600
             /\ last'.status = favicon_cache.value[1].status
             /\ last'.headers = favicon_cache.value[1].headers
             /\ last'.body = favicon_cache.value[1].body]_vars
  /\ [](\A p \in Threads : thr[p].pc = "check" => Whole(favicon_cache.value))

\* a request has been answered from an entry aged 3599 seconds while the
\* other request, holding a newer 2xx response, waits for the write guard
C36_Witness ==
  /\ last.op = "favicon" /\ last.from = "cache" /\ last.age = 3599
  /\ \E p \in Threads : thr[p].pc = "write" /\ thr[p].cache.body # last.body

\* C37: a gate step that forwards or blocks leaves the task store as it
\* was; a gate step that answers with a challenge page adds exactly one
\* task under a key the store did not hold, changes no other entry, and
\* that task carries the hash of the request's user-agent and the hash of
\* its binding address (none when the policy is none).
C37_GateFrame ==
  [][last'.op = "gate" =>
       /\ last'.kind \in {"forward", "block"} => store' = store
       /\ (last'.kind = "challenge" /\ last'.status = 403) =>
            /\ Cardinality(DOMAIN store' \ DOMAIN store) = 1
            /\ \A k \in DOMAIN store : k \in DOMAIN store' /\ store'[k] = store[k]
            /\ \A k \in DOMAIN store' \ DOMAIN store :
                 /\ last'.task = Some(store'[k])
                 /\ store'[k].ua_hash = compute_ua_hash(last'.ua)
                 /\ store'[k].ip_hash =
                      (IF cfg.ip_policy = "none" THEN ""
                       ELSE compute_ip_hash(extract_client_ip(last'.client,
                                                              cfg.ip_policy)))]_vars

\* under the strict policy the gate has challenged a request from curl that
\* carried a cookie, while the store held a task issued to Mozilla: the
\* store now holds both, the new one bound to curl
C37_Witness ==
  /\ last.op = "gate" /\ last.kind = "challenge" /\ last.status = 403 /\ last.cookie_sent
  /\ cfg.ip_policy = "strict"
  /\ Cardinality(DOMAIN store) = 2
  /\ last.ua = "curl" /\ last.client.peer = "10.0.0.2"
  /\ last.task[1].ua_hash = compute_ua_hash("curl")
  /\ \E k \in DOMAIN store : store[k].ua_hash = compute_ua_hash("Mozilla")

\* the number of Set-Cookie headers emitted so far
RECURSIVE CookiesIssued(_)
CookiesIssued(k) == IF k = 0 THEN 0 ELSE wins[k] + CookiesIssued(k - 1)

\* C38: a Set-Cookie is emitted only in the step of a verify request whose
\* consume_if returned the task, which that step removes from the store;
\* a 400 or 500 answer of POST /task or POST /verify carries no Set-Cookie;
\* and the cookies issued never outnumber the tasks inserted.
C38_CookieAfterConsume ==
  /\ [][(cookies' # cookies \/ (last'.op \in {"task", "verify"} /\ IsSome(last'.set_cookie)))
          => /\ last'.op = "verify" /\ last'.status = 200 /\ last'.kind = "Ok"
             /\ last'.named \in DOMAIN store /\ last'.named \notin DOMAIN store'
             /\ last'.task = Some(store[last'.named])
             /\ IsSome(last'.set_cookie)
             /\ cookies' = cookies \cup {last'.set_cookie[1].value}]_vars
  /\ []((last.op \in {"task", "verify"} /\ last.status \in {400, 500})
          => last.set_cookie = None)
  /\ [](CookiesIssued(MaxTasks) <= nextId - 1 /\ Cardinality(cookies) <= nextId - 1)

\* the one task inserted has been consumed by a verify request that was
\* answered with a Set-Cookie, and a later request was answered 400
C38_Witness ==
  /\ last.op = "verify" /\ last.status = 400 /\ last.set_cookie = None
  /\ nextId = 2 /\ CookiesIssued(MaxTasks) = 1 /\ Cardinality(cookies) = 1
  /\ store = EmptyStore

\* the request carries a cookie that fails the token check or a binding
RejectedCookie(req) == IsSome(req.cookie) /\ ~verify_cookie(cfg, req, req.cookie[1], now)

\* C39: for a request whose cookie is rejected, the gate decides as it
\* does for the same request without the cookie: the same forward, block
\* or challenge, at the same difficulty, on the same ground.
C39_RejectedCookieIsNoCookie ==
  \A req \in GateRequests :
    RejectedCookie(req)
      => pow_gate(cfg, req, now) = pow_gate(cfg, [req EXCEPT !.cookie = None], now)

\* the gate has just blocked a request that carried a rejected cookie, and
\* a cookie the server issued is rejected for a request from another
\* address, to which the rules answer Block
C39_Witness ==
  /\ last.op = "gate" /\ last.cookie_sent /\ ~last.valid_cookie /\ last.kind = "block"
  /\ \E req \in GateRequests :
       /\ RejectedCookie(req) /\ req.cookie[1] \in cookies
       /\ req.client.peer = "10.0.0.2"
       /\ pow_gate(cfg, req, now).kind = "block"


\* C40: no request whose path starts with the internal prefix /__cowcatwaf
\* is sent to the upstream: the gate forwards every such request, the
\* router runs an internal handler for it or answers 405, and a path that
\* matches no internal route is answered 404 by proxy_handler.
C40_InternalNeverUpstream ==
  (Returned("route") /\ is_pow_path(thr[1].req.path))
    => LET r == thr[1].result IN
       /\ r.gate = "forward"
       /\ r.sent = None
       /\ r.handler \in {"challenge_page", "health_ok", "serve_asset", "pow_task",
                         "pow_verify", "method_not_allowed", "proxy_handler"}
       /\ r.handler = "proxy_handler" => r.status = 404

C40_Witness ==
  /\ Returned("route")
  /\ thr[1].req.path = POW_PREFIX \o "/unknown"
  /\ thr[1].config.difficulty = 1
  /\ thr[1].upstream = Some(200)
  /\ thr[1].result.handler = "proxy_handler"
  /\ thr[1].result.status = 404

====
